---- MODULE Spec2Model ----
(***************************************************************************)
(* Model of the ingestion and normalisation layer of the soccer-api        *)
(* repository: the windows-1255 URL parameter encoder and page decoder,    *)
(* the time-bounded caches, the HTML extractors and the routes of the      *)
(* jokes router, the Hebrew name normaliser of the Pokemon routes,         *)
(* fetchToday of the soccer routes and the middleware stack of the two     *)
(* Express applications.                                                   *)
(*                                                                         *)
(* Text is modelled as sequences of Unicode code points (integers).        *)
(* Each subsystem has its own specification (SpecEnc, SpecCache, ...):     *)
(* exactly one subsystem is active in a behaviour, the others stay idle.   *)
(***************************************************************************)
EXTENDS Integers, Sequences, FiniteSets, TLC

VARIABLES
    encPc,      \* encoder run: "idle" | "start" | "encoded" | "thrown" | "decoded"
    encIn,      \* the string handed to encodeWin1255 (code points)
    encOut,     \* the string encodeWin1255 returned (ASCII code points)
    encBack     \* what the legacy server reads back from encOut

VARIABLES
    cacheMod,   \* the module whose cache this run exercises, or "idle"
    cache,      \* that module's `cache` Map: key -> entry, on the keys present
    slot,       \* the standalone server's `let cache = { ts, data }`
    now,        \* Date.now()
    pending,    \* requests in flight: [id, key, t0]; t0 is the `now` the standalone
                \* fetchToday took before its await, 0 where the code takes none
    lastCall,   \* what the latest fetch call read from the cache
    lastSet,    \* history: per key, the latest value stored and when
    nCalls,     \* fetch calls made so far
    nTicks      \* clock advances so far

VARIABLES
    pgPc,       \* extractor run: "idle" | "listing" | "joke" | "done"
    pgDoc,      \* the parsed document (what cheerio.load(html) exposes)
    pgId,       \* parseJokePage's id argument
    pgOut       \* what the extractor returned

VARIABLES
    POKEMON_NAME_HE,      \* the Hebrew name dictionary (`let POKEMON_NAME_HE = {}`)
    heNamesDictLoaded,    \* `let _heNamesDictLoaded = false`
    loads,                \* ids of the loadHebrewNameDictionary calls awaiting axios
    nLoads,               \* loadHebrewNameDictionary calls made so far
    lastLoad,             \* history: how the latest finished load ended
    lastGood,             \* history: the table the latest successful load parsed
    lookup                \* the latest normalizer lookup and what it returned

VARIABLES
    jrRoute,    \* the jokes route serving the request: "idle" | "latest" | "category" | "id"
    jrReq,      \* the request: [limit, slug, id] as sent by the client
    jrPc,       \* "start" | "listing" | "jokes" | "page" | "done"
    jrPage,     \* history: whether the listing page arrived, and its anchors
    jrLinks,    \* jokeLinks: the kept entries of the listing page
    jrOut,      \* the promises of the fan-out, in link order: Pending or the entry
    jrFail,     \* history: the positions whose joke page fetch failed
    jrFetches,  \* history: fetchPage calls made for the request
    jrResp      \* the responses sent for the request, in order

VARIABLES
    tdMod,      \* whose fetchToday runs: "idle" | "routes" | "standalone"
    tdPc,       \* "start" | "waiting" | "done"
    tdAnswer,   \* history: per league, how its request ended: [kind, events]
    tdSettled,  \* Promise.allSettled: per league, Pending or [status, value]
    tdStored,   \* what fetchToday put in the cache
    tdResult    \* how the fetchToday promise ended: [state, value]

VARIABLES
    decPc,      \* page decode run: "idle" | "start" | "decoded" | "thrown"
    decIn,      \* the bytes of the response body (`buf`)
    decOut      \* the string TextDecoder returned (code points)

VARIABLES
    svApp,      \* which server got the request: "idle" | "main" | "standalone"
    svEnv,      \* process.env.RAPID_PROXY_SECRET
    svFiles,    \* the files of the client directory, as URL paths
    svReq,      \* the request: [method, path, header]
    svPc,       \* the middleware about to run: "static" | "secret" | "routes" | "done"
    svSeen,     \* history: the handlers that served or answered the request
    svResp      \* the responses sent, in order: [status, by]

VARIABLES
    rdPc,       \* GET /random: "idle" | "loop" | "await" | "done"
    rdQuery,    \* req.query.count as sent (tokens; <<>> when absent)
    rdJokes,    \* jokes
    rdTried,    \* tried
    rdAttempts, \* attempts
    rdId,       \* the id whose page is awaited (0 outside the await)
    rdFetches,  \* history: fetchPage calls made for the request
    rdResp      \* the responses sent, in order

VARIABLES
    plRoute,    \* the paginated Pokemon route: "idle" | "list" | "type" | "generation"
    plQuery,    \* req.query: [limit, offset] as sent (tokens; <<>> when absent)
    plTotal,    \* how many entries PokeAPI has for the list, the type or the generation
    plPc,       \* "start" | "await" | "done"
    plResp      \* the responses sent, in order

VARIABLES
    hqPc,       \* GET /detail/:idOrName with a Hebrew name: "idle" | "start" | "waiting" | "pokeapi" | "done"
    hqQuery,    \* q, the Hebrew name asked for
    hqLoad,     \* the loadHebrewNameDictionary call getHebrewNameMap awaits (0: none)
    hqName,     \* the API name q resolved to (<<>>: none)
    hqPokeGets, \* history: pokeGet calls made for the request
    hqResp      \* the responses sent for the request, in order

VARIABLES
    hpRun,      \* fetchHebrewPokedex calls at an await: [id, step, sent]
    hpLast,     \* history: the call that returned last
    nHp,        \* fetchHebrewPokedex calls so far
    hpSent      \* history: requests sent to pocketmonsters.co.il

encVars == <<encPc, encIn, encOut, encBack>>
cacheVars == <<cacheMod, cache, slot, now, pending, lastCall, lastSet, nCalls, nTicks>>
pgVars == <<pgPc, pgDoc, pgId, pgOut>>
dictVars == <<POKEMON_NAME_HE, heNamesDictLoaded, loads, nLoads, lastLoad, lastGood, lookup>>
jrVars == <<jrRoute, jrReq, jrPc, jrPage, jrLinks, jrOut, jrFail, jrFetches, jrResp>>
tdVars == <<tdMod, tdPc, tdAnswer, tdSettled, tdStored, tdResult>>
decVars == <<decPc, decIn, decOut>>
svVars == <<svApp, svEnv, svFiles, svReq, svPc, svSeen, svResp>>
rdVars == <<rdPc, rdQuery, rdJokes, rdTried, rdAttempts, rdId, rdFetches, rdResp>>
plVars == <<plRoute, plQuery, plTotal, plPc, plResp>>
hqVars == <<hqPc, hqQuery, hqLoad, hqName, hqPokeGets, hqResp>>
hpVars == <<hpRun, hpLast, nHp, hpSent>>

vars == <<encPc, encIn, encOut, encBack,
          cacheMod, cache, slot, now, pending, lastCall, lastSet, nCalls, nTicks,
          pgPc, pgDoc, pgId, pgOut,
          POKEMON_NAME_HE, heNamesDictLoaded, loads, nLoads, lastLoad, lastGood, lookup,
          jrRoute, jrReq, jrPc, jrPage, jrLinks, jrOut, jrFail, jrFetches, jrResp,
          tdMod, tdPc, tdAnswer, tdSettled, tdStored, tdResult,
          decPc, decIn, decOut,
          svApp, svEnv, svFiles, svReq, svPc, svSeen, svResp,
          rdPc, rdQuery, rdJokes, rdTried, rdAttempts, rdId, rdFetches, rdResp,
          plRoute, plQuery, plTotal, plPc, plResp,
          hqPc, hqQuery, hqLoad, hqName, hqPokeGets, hqResp,
          hpRun, hpLast, nHp, hpSent>>

(***************************************************************************)
(* Bounds.                                                                 *)
(***************************************************************************)
MaxStrLen == 2
MaxCalls == 3
MaxTicks == 2
MaxAnchors == 3
MaxRows == 2
MaxLoads == 3
MaxEvents == 2

RECURSIVE SeqsUpTo(_, _)
SeqsUpTo(S, n) ==
    IF n = 0 THEN {<<>>}
    ELSE LET shorter == SeqsUpTo(S, n - 1)
         IN  shorter \cup {Append(s, x) : s \in {t \in shorter : Len(t) = n - 1}, x \in S}

RECURSIVE Flatten(_)
Flatten(ss) == IF ss = <<>> THEN <<>> ELSE Head(ss) \o Flatten(Tail(ss))

(***************************************************************************)
(* Code points the encoder tests for.                                      *)
(***************************************************************************)
HEB_FIRST == 1488      \* U+05D0 alef
HEB_LAST == 1514       \* U+05EA tav
WIN_HEB_BASE == 224    \* 0xE0, the windows-1255 byte of alef
CH_PERCENT == 37
CH_SPACE == 32
CH_0 == 48
CH_9 == 57
CH_A == 65
CH_F == 70
CH_Z == 90
CH_a == 97
CH_f == 102
CH_z == 122
SUR_FIRST == 55296     \* U+D800
SUR_LAST == 57343      \* U+DFFF
REPLACEMENT == 65533   \* U+FFFD

HebrewLetters == HEB_FIRST..HEB_LAST
Digits == CH_0..CH_9
AsciiLetters == (CH_A..CH_Z) \cup (CH_a..CH_z)
\* "-_.~" : 45, 95, 46, 126
UnreservedMarks == {45, 95, 46, 126}
\* encodeURIComponent leaves these alone besides letters and digits: - _ . ! ~ * ' ( )
UriUnescapedMarks == {45, 95, 46, 33, 126, 42, 39, 40, 41}

(***************************************************************************)
(* Number.prototype.toString(16).toUpperCase(): no padding.                *)
(***************************************************************************)
HexDigit(d) == IF d < 10 THEN CH_0 + d ELSE CH_A + (d - 10)

\* Number.prototype.toString(16) without the toUpperCase()
RECURSIVE ToHexLower(_)
ToHexLower(n) ==
    LET digit(d) == IF d < 10 THEN CH_0 + d ELSE CH_a + (d - 10)
    IN  IF n < 16 THEN <<digit(n)>>
        ELSE Append(ToHexLower(n \div 16), digit(n % 16))

RECURSIVE ToHexUpper(_)
ToHexUpper(n) ==
    IF n < 16 THEN <<HexDigit(n)>>
    ELSE Append(ToHexUpper(n \div 16), HexDigit(n % 16))

\* "%XX" as encodeURIComponent writes a byte: always two digits
PctByte(b) == <<CH_PERCENT, HexDigit(b \div 16), HexDigit(b % 16)>>

(***************************************************************************)
(* UTF-8 bytes of a code point (encodeURIComponent encodes these).         *)
(***************************************************************************)
Utf8(cp) ==
    IF cp < 128 THEN <<cp>>
    ELSE IF cp < 2048 THEN <<192 + (cp \div 64), 128 + (cp % 64)>>
    ELSE IF cp < 65536 THEN
        <<224 + (cp \div 4096), 128 + ((cp \div 64) % 64), 128 + (cp % 64)>>
    ELSE <<240 + (cp \div 262144), 128 + ((cp \div 4096) % 64),
           128 + ((cp \div 64) % 64), 128 + (cp % 64)>>

IsLoneSurrogate(cp) == cp >= SUR_FIRST /\ cp <= SUR_LAST

\* encodeURIComponent of a one-code-point string; a lone surrogate raises URIError
encodeURIComponent(cp) ==
    IF IsLoneSurrogate(cp) THEN [ok |-> FALSE, out |-> <<>>]
    ELSE IF cp \in Digits \cup AsciiLetters \cup UriUnescapedMarks
         THEN [ok |-> TRUE, out |-> <<cp>>]
    ELSE [ok |-> TRUE,
          out |-> Flatten([i \in 1..Len(Utf8(cp)) |-> PctByte(Utf8(cp)[i])])]

(***************************************************************************)
(* encodeWin1255, one code point of the loop.                              *)
(***************************************************************************)
EncodeCharShifted(cp) ==
    IF cp >= HEB_FIRST /\ cp <= HEB_LAST
    THEN [ok |-> TRUE, out |-> <<CH_PERCENT>> \o ToHexUpper(WIN_HEB_BASE + 1 + (cp - HEB_FIRST))]
    ELSE IF (cp >= CH_0 /\ cp <= CH_9) \/ (cp >= CH_A /\ cp <= CH_Z)
            \/ (cp >= CH_a /\ cp <= CH_z) \/ cp \in UnreservedMarks
    THEN [ok |-> TRUE, out |-> <<cp>>]
    ELSE IF cp = CH_SPACE THEN [ok |-> TRUE, out |-> PctByte(CH_SPACE)]
    ELSE encodeURIComponent(cp)

EncodeChar(cp) ==
    IF cp >= HEB_FIRST /\ cp <= HEB_LAST
    THEN [ok |-> TRUE, out |-> <<CH_PERCENT>> \o ToHexUpper(WIN_HEB_BASE + (cp - HEB_FIRST))]
    ELSE IF (cp >= CH_0 /\ cp <= CH_9) \/ (cp >= CH_A /\ cp <= CH_Z)
            \/ (cp >= CH_a /\ cp <= CH_z) \/ cp \in UnreservedMarks
    THEN [ok |-> TRUE, out |-> <<cp>>]
    ELSE IF cp = CH_SPACE THEN [ok |-> TRUE, out |-> PctByte(CH_SPACE)]
    ELSE encodeURIComponent(cp)

\* the whole loop: the first throwing character aborts the call
encodeWin1255(str) ==
    LET parts == [i \in 1..Len(str) |-> EncodeChar(str[i])]
    IN  IF \E i \in 1..Len(str) : ~parts[i].ok
        THEN [ok |-> FALSE, out |-> <<>>]
        ELSE [ok |-> TRUE, out |-> Flatten([i \in 1..Len(str) |-> parts[i].out])]

(***************************************************************************)
(* The legacy server's side: percent-decoding of the query parameter to    *)
(* bytes, then the windows-1255 table (the one TextDecoder applies to the  *)
(* pages in fetchPage).                                                    *)
(***************************************************************************)
IsHex(c) == (c >= CH_0 /\ c <= CH_9) \/ (c >= CH_A /\ c <= CH_F) \/ (c >= CH_a /\ c <= CH_f)

HexVal(c) ==
    IF c >= CH_0 /\ c <= CH_9 THEN c - CH_0
    ELSE IF c >= CH_A /\ c <= CH_F THEN c - CH_A + 10
    ELSE c - CH_a + 10

RECURSIVE PercentDecode(_)
PercentDecode(s) ==
    IF s = <<>> THEN <<>>
    ELSE IF Head(s) = CH_PERCENT /\ Len(s) >= 3 /\ IsHex(s[2]) /\ IsHex(s[3])
    THEN <<16 * HexVal(s[2]) + HexVal(s[3])>> \o PercentDecode(SubSeq(s, 4, Len(s)))
    ELSE <<Head(s)>> \o PercentDecode(Tail(s))

\* windows-1255, bytes 0x80..0xBF, as the WHATWG index lists them
Win1255High(b) ==
    CASE b = 128 -> 8364  [] b = 130 -> 8218  [] b = 131 -> 402
      [] b = 132 -> 8222  [] b = 133 -> 8230  [] b = 134 -> 8224
      [] b = 135 -> 8225  [] b = 136 -> 710   [] b = 137 -> 8240
      [] b = 139 -> 8249  [] b = 145 -> 8216  [] b = 146 -> 8217
      [] b = 147 -> 8220  [] b = 148 -> 8221  [] b = 149 -> 8226
      [] b = 150 -> 8211  [] b = 151 -> 8212  [] b = 152 -> 732
      [] b = 153 -> 8482  [] b = 155 -> 8250  [] b = 164 -> 8362
      [] b = 170 -> 215   [] b = 186 -> 247
      [] OTHER -> b

\* windows-1255 bytes the index leaves without a code point
Win1255Unmapped == (217..223) \cup {251, 252, 255}

\* a decoder that passes the bytes it cannot map through
Win1255DecodeBytePassing(b) ==
    IF b < 128 \/ b \in Win1255Unmapped THEN b
    ELSE IF b < 192 THEN Win1255High(b)
    ELSE IF b <= 211 THEN 1456 + (b - 192)
    ELSE IF b <= 216 THEN 1520 + (b - 212)
    ELSE IF b <= WIN_HEB_BASE + (HEB_LAST - HEB_FIRST) THEN HEB_FIRST + (b - WIN_HEB_BASE)
    ELSE IF b = 253 THEN 8206
    ELSE 8207

Win1255DecodeByte(b) ==
    IF b < 128 THEN b
    ELSE IF b < 192 THEN Win1255High(b)
    ELSE IF b <= 211 THEN 1456 + (b - 192)          \* 0xC0..0xD3: points U+05B0..U+05C3
    ELSE IF b <= 216 THEN 1520 + (b - 212)          \* 0xD4..0xD8: U+05F0..U+05F4
    ELSE IF b < WIN_HEB_BASE THEN REPLACEMENT       \* 0xD9..0xDF: no mapping
    ELSE IF b <= WIN_HEB_BASE + (HEB_LAST - HEB_FIRST) THEN HEB_FIRST + (b - WIN_HEB_BASE)
    ELSE IF b = 253 THEN 8206
    ELSE IF b = 254 THEN 8207
    ELSE REPLACEMENT                                \* 0xFB, 0xFC, 0xFF

\* new TextDecoder("windows-1255").decode(buf)
TextDecodeWin1255(bytes) == [i \in 1..Len(bytes) |-> Win1255DecodeByte(bytes[i])]

(***************************************************************************)
(* Encoder runs.                                                           *)
(***************************************************************************)
\* the characters tried: every Hebrew letter, the ends and the middle of
\* each ASCII range, and characters of every other branch of the encoder
EncAlphabet ==
    HebrewLetters
    \cup {CH_0, 53, CH_9, CH_A, 77, CH_Z, CH_a, 109, CH_z}
    \cup {45, 95, 46, 126, CH_SPACE, 33, 47, 39, CH_PERCENT}
    \cup {233, 1456, HEB_FIRST - 1, HEB_LAST + 1, 8362, 128512, SUR_FIRST}

InitEnc ==
    /\ encPc = "start"
    /\ encIn \in SeqsUpTo(EncAlphabet, MaxStrLen)
    /\ encOut = <<>>
    /\ encBack = <<>>

IdleEnc ==
    /\ encPc = "idle"
    /\ encIn = <<>>
    /\ encOut = <<>>
    /\ encBack = <<>>

\* const catParam = encodeWin1255(category.param)
EncodeParam ==
    /\ encPc = "start"
    /\ LET r == encodeWin1255(encIn)
       IN  /\ encPc' = IF r.ok THEN "encoded" ELSE "thrown"
           /\ encOut' = r.out
    /\ UNCHANGED <<encIn, encBack>>
    /\ UNCHANGED <<cacheVars, pgVars, dictVars, jrVars, tdVars, decVars, svVars, rdVars, plVars, hqVars, hpVars>>

\* the server reads the parameter back
ServerReadsParam ==
    /\ encPc = "encoded"
    /\ encBack' = TextDecodeWin1255(PercentDecode(encOut))
    /\ encPc' = "decoded"
    /\ UNCHANGED <<encIn, encOut>>
    /\ UNCHANGED <<cacheVars, pgVars, dictVars, jrVars, tdVars, decVars, svVars, rdVars, plVars, hqVars, hpVars>>

NextEnc == EncodeParam \/ ServerReadsParam

(***************************************************************************)
(* The time-bounded caches.  Four modules keep one each: the jokes routes  *)
(* (scraped pages, 30 min), the Pokemon routes (24 h, CACHE_MISS as the    *)
(* absent value), the soccer routes (CACHE_MS) and the standalone server   *)
(* (a single slot).  The modules share no state but the clock, so a run    *)
(* exercises one of them.                                                  *)
(***************************************************************************)
MapMods == {"jokes", "pokemon", "soccer"}
CacheMods == MapMods \cup {"standalone"}

CACHE_TTL_JOKES == 1000 * 60 * 30
CACHE_TTL_POKEMON == 1000 * 60 * 60 * 24
CACHE_MS == 60000
STANDINGS_TTL == 300000

CACHE_TTL(mod) ==
    CASE mod = "jokes" -> CACHE_TTL_JOKES
      [] mod = "pokemon" -> CACHE_TTL_POKEMON
      [] OTHER -> CACHE_MS

\* JS null is "NULL"; the Pokemon module's Symbol is "CACHE_MISS"
CACHE_MISS == "CACHE_MISS"
Absent(mod) == IF mod = "pokemon" THEN CACHE_MISS ELSE "NULL"
Truthy(v) == v \notin {"", "NULL"}

KeysOf(mod) ==
    CASE mod = "jokes" -> {"joke.php?id=1", "new.php"}
      [] mod = "pokemon" -> {"pokemon/25", "he_pokedex_0025"}
      [] mod = "soccer" -> {"today", "standings_eng.1"}
      [] OTHER -> {"today"}

AllKeys == UNION {KeysOf(m) : m \in CacheMods}

\* what a completed fetch may store: an empty page is a page, and
\* fetchHebrewPokedex stores null for a Pokemon without a post
PayloadsOf(mod, key) ==
    CASE mod = "jokes" -> {"", "A", "B"}
      [] mod = "pokemon" -> IF key = "he_pokedex_0025" THEN {"NULL", "A"} ELSE {"A", "B"}
      [] OTHER -> {"A", "B"}

\* setCache's third argument in the soccer module
TtlArg(key) == IF key = "standings_eng.1" THEN STANDINGS_TTL ELSE CACHE_MS

MapHas(m, key) == key \in DOMAIN m
\* a store that rebuilds the map around the new entry
MapSetAlone(m, key, e) == [k \in {key} |-> e]

MapSet(m, key, e) == [k \in DOMAIN m \cup {key} |-> IF k = key THEN e ELSE m[k]]
EmptyMap == [k \in {} |-> 0]

\* a store that keeps the entry a key already has
setCacheKeepFirst(mod, m, key, data, t) ==
    IF MapHas(m, key) THEN m
    ELSE MapSet(m, key,
                IF mod = "soccer" THEN [data |-> data, ts |-> t, ttl |-> TtlArg(key)]
                ELSE [data |-> data, ts |-> t])

\* function cached(key)
cachedAtOrBefore(mod, m, key, t) ==
    IF MapHas(m, key) /\ t - m[key].ts <= CACHE_TTL(mod) THEN m[key].data ELSE Absent(mod)

cachedNever(mod, m, key, t) == Absent(mod)

cached(mod, m, key, t) ==
    IF MapHas(m, key) /\ t - m[key].ts < CACHE_TTL(mod) THEN m[key].data ELSE Absent(mod)

\* function setCache(key, data[, ttl])
setCache(mod, m, key, data, t) ==
    MapSet(m, key,
           IF mod = "soccer" THEN [data |-> data, ts |-> t, ttl |-> TtlArg(key)]
           ELSE [data |-> data, ts |-> t])

\* `if (hit) return hit`, and `if (hit !== CACHE_MISS) return hit` in the Pokemon module
\* a module that takes a stored null for a miss, as the other modules do
IsHitTruthy(mod, hit) == hit # CACHE_MISS /\ Truthy(hit)

IsHit(mod, hit) == IF mod = "pokemon" THEN hit # CACHE_MISS ELSE Truthy(hit)

NoCall == [idx |-> 0, key |-> "", got |-> "", at |-> 0, served |-> FALSE]
\* by: the request that stored; writes: how many stores the key has seen
NoSet == [set |-> FALSE, v |-> "", at |-> 0, calls |-> 0, by |-> 0, writes |-> 0]

ClockStart == 5
FETCH_TIMEOUT == 10000
TickSteps(mod) == {1, CACHE_TTL(mod) - 1}

InitCache ==
    /\ cacheMod \in CacheMods
    /\ cache = EmptyMap
    /\ slot = [ts |-> 0, data |-> "NULL"]
    /\ now = ClockStart
    /\ pending = {}
    /\ lastCall = NoCall
    /\ lastSet = [k \in AllKeys |-> NoSet]
    /\ nCalls = 0
    /\ nTicks = 0

IdleCache ==
    /\ cacheMod = "idle"
    /\ cache = EmptyMap
    /\ slot = [ts |-> 0, data |-> "NULL"]
    /\ now = ClockStart
    /\ pending = {}
    /\ lastCall = NoCall
    /\ lastSet = [k \in AllKeys |-> NoSet]
    /\ nCalls = 0
    /\ nTicks = 0

\* a request that waits for an in-flight one of the same key instead of going out
SendRequestShared(pend, id, key, t0) ==
    IF \E req \in pend : req.key = key THEN pend
    ELSE pend \cup {[id |-> id, key |-> key, t0 |-> t0]}

\* `await axios.get(url, ...)`: every miss sends a request of its own
SendRequest(pend, id, key, t0) == pend \cup {[id |-> id, key |-> key, t0 |-> t0]}

\* time passes; the standalone server's requests carry `timeout: 10_000`, so
\* none is still in flight later than that (the other modules' requests are
\* allowed any delay here)
Tick ==
    /\ cacheMod \in CacheMods
    /\ nTicks < MaxTicks
    /\ \E d \in TickSteps(cacheMod) :
        /\ cacheMod = "standalone" => \A req \in pending : now + d - req.t0 <= FETCH_TIMEOUT
        /\ now' = now + d
    /\ nTicks' = nTicks + 1
    /\ UNCHANGED <<cacheMod, cache, slot, pending, lastCall, lastSet, nCalls>>
    /\ UNCHANGED <<encVars, pgVars, dictVars, jrVars, tdVars, decVars, svVars, rdVars, plVars, hqVars, hpVars>>

\* fetchPage / pokeGet / fetchHebrewPokedex / fetchToday / fetchStandings up to
\* the first await: the cache is read, and a miss sends the request
CallFetch ==
    /\ cacheMod \in MapMods
    /\ nCalls < MaxCalls
    /\ \E key \in KeysOf(cacheMod) :
        LET hit == cached(cacheMod, cache, key, now)
            served == IsHit(cacheMod, hit)
        IN  /\ lastCall' = [idx |-> nCalls + 1, key |-> key, got |-> hit,
                            at |-> now, served |-> served]
            /\ pending' = IF served THEN pending
                          ELSE SendRequest(pending, nCalls + 1, key, 0)
    /\ nCalls' = nCalls + 1
    /\ UNCHANGED <<cacheMod, cache, slot, now, lastSet, nTicks>>
    /\ UNCHANGED <<encVars, pgVars, dictVars, jrVars, tdVars, decVars, svVars, rdVars, plVars, hqVars, hpVars>>

\* the response arrives and the rest of the function runs: setCache(key, data)
Respond ==
    /\ cacheMod \in MapMods
    /\ \E req \in pending : \E v \in PayloadsOf(cacheMod, req.key) :
        /\ cache' = setCache(cacheMod, cache, req.key, v, now)
        /\ lastSet' = [lastSet EXCEPT ![req.key] =
                          [set |-> TRUE, v |-> v, at |-> now, calls |-> nCalls,
                           by |-> req.id, writes |-> lastSet[req.key].writes + 1]]
        /\ pending' = pending \ {req}
    /\ UNCHANGED <<cacheMod, slot, now, lastCall, nCalls, nTicks>>
    /\ UNCHANGED <<encVars, pgVars, dictVars, jrVars, tdVars, decVars, svVars, rdVars, plVars, hqVars, hpVars>>

\* the request fails (error status, timeout): the call throws or returns
\* without touching the cache.  The soccer fetchToday cannot fail: each
\* fetchLeague catches its own error
RespondFail ==
    /\ cacheMod \in MapMods
    /\ \E req \in pending :
        /\ ~(cacheMod = "soccer" /\ req.key = "today")
        /\ pending' = pending \ {req}
    /\ UNCHANGED <<cacheMod, cache, slot, now, lastCall, lastSet, nCalls, nTicks>>
    /\ UNCHANGED <<encVars, pgVars, dictVars, jrVars, tdVars, decVars, svVars, rdVars, plVars, hqVars, hpVars>>

\* the standalone server's fetchToday up to its await: `now` is taken here
StandaloneCall ==
    /\ cacheMod = "standalone"
    /\ nCalls < MaxCalls
    /\ LET served == Truthy(slot.data) /\ now - slot.ts < CACHE_MS
       IN  /\ lastCall' = [idx |-> nCalls + 1, key |-> "today",
                           got |-> IF served THEN slot.data ELSE "NULL",
                           at |-> now, served |-> served]
           /\ pending' = IF served THEN pending
                         ELSE SendRequest(pending, nCalls + 1, "today", now)
    /\ nCalls' = nCalls + 1
    /\ UNCHANGED <<cacheMod, cache, slot, now, lastSet, nTicks>>
    /\ UNCHANGED <<encVars, pgVars, dictVars, jrVars, tdVars, decVars, svVars, rdVars, plVars, hqVars, hpVars>>

\* ... and after it: cache = { ts: now, data: payload } with the `now` taken before
StandaloneStore ==
    /\ cacheMod = "standalone"
    /\ \E req \in pending : \E v \in PayloadsOf(cacheMod, req.key) :
        /\ slot' = [ts |-> req.t0, data |-> v]
        /\ lastSet' = [lastSet EXCEPT ![req.key] =
                          [set |-> TRUE, v |-> v, at |-> now, calls |-> nCalls,
                           by |-> req.id, writes |-> lastSet[req.key].writes + 1]]
        /\ pending' = pending \ {req}
    /\ UNCHANGED <<cacheMod, cache, now, lastCall, nCalls, nTicks>>
    /\ UNCHANGED <<encVars, pgVars, dictVars, jrVars, tdVars, decVars, svVars, rdVars, plVars, hqVars, hpVars>>

NextCache == Tick \/ CallFetch \/ Respond \/ RespondFail \/ StandaloneCall \/ StandaloneStore

(***************************************************************************)
(* The structural extractors of the jokes routes.  cheerio parses the      *)
(* HTML; the model starts from what it exposes: the anchors of a listing   *)
(* page in document order, and for a joke page the text of <title>, the    *)
(* serialised <body>, the content of <meta name="description">, the text   *)
(* of the first <h2> and the <p> texts.  Text is a sequence of tokens: a   *)
(* word character "w", white space " ", and the words and marks the        *)
(* regular expressions look for ("QUOT" is a decoded double quote).        *)
(***************************************************************************)
Null == [isNull |-> TRUE, text |-> <<>>]
Str(t) == [isNull |-> FALSE, text |-> t]
\* !x for a string-or-null
Falsy(x) == x.isNull \/ x.text = <<>>

WsTokens == {" "}
IsWs(tok) == tok \in WsTokens

\* the first position >= p that holds no white space (Len + 1 if none)
RECURSIVE WsEnd(_, _)
WsEnd(t, p) == IF p <= Len(t) /\ IsWs(t[p]) THEN WsEnd(t, p + 1) ELSE p

\* String.prototype.trim()
RECURSIVE TrimEnd(_)
TrimEnd(t) == IF t # <<>> /\ IsWs(t[Len(t)]) THEN TrimEnd(SubSeq(t, 1, Len(t) - 1)) ELSE t
Trim(t) == TrimEnd(SubSeq(t, WsEnd(t, 1), Len(t)))

\* .replace(/\s+/g, " ")
RECURSIVE CollapseWs(_)
CollapseWs(t) ==
    IF t = <<>> THEN <<>>
    ELSE IF IsWs(t[1]) THEN <<" ">> \o CollapseWs(SubSeq(t, WsEnd(t, 1), Len(t)))
    ELSE <<t[1]>> \o CollapseWs(Tail(t))

\* cheerio.load(fragment).text(): tags dropped, entities decoded
IsTag(tok) == tok \in {"<b>", "</b>", "<br>"}
DecodeEntity(tok) == IF tok = "&quot;" THEN "QUOT" ELSE tok
RECURSIVE CheerioText(_)
CheerioText(t) ==
    IF t = <<>> THEN <<>>
    ELSE IF IsTag(t[1]) THEN CheerioText(Tail(t))
    ELSE <<DecodeEntity(t[1])>> \o CheerioText(Tail(t))

NoMatch == [matched |-> FALSE, cap |-> <<>>]

\* the least element of a non-empty set of positions
MinOf(S) == CHOOSE x \in S : \A y \in S : x <= y
MaxOf(S) == CHOOSE x \in S : \A y \in S : x >= y

(***************************************************************************)
(* pageTitle.match(/LABEL\s*:\s*(.+?)\s*-\s*SITE/), with "L" the label     *)
(* word and "S" the site name.  The leftmost start wins; \s* is greedy and *)
(* gives back on failure; (.+?) takes the fewest characters.               *)
(***************************************************************************)
TitleTail(t, p) ==
    LET q == WsEnd(t, p)
    IN  /\ q <= Len(t)
        /\ t[q] = "-"
        /\ LET r == WsEnd(t, q + 1) IN r <= Len(t) /\ t[r] = "S"

TitleCaps(t, i) ==
    LET c == WsEnd(t, i + 1)
    IN  IF c > Len(t) \/ t[c] # ":" THEN {}
        ELSE {ab \in ((c + 1)..WsEnd(t, c + 1)) \X ((c + 1)..Len(t)) :
                 ab[1] <= ab[2] /\ TitleTail(t, ab[2] + 1)}

TitleMatch(t) ==
    LET starts == {i \in 1..Len(t) : t[i] = "L" /\ TitleCaps(t, i) # {}}
    IN  IF starts = {} THEN NoMatch
        ELSE LET caps == TitleCaps(t, MinOf(starts))
                 a == MaxOf({ab[1] : ab \in caps})
                 b == MinOf({ab[2] : ab \in {x \in caps : x[1] = a}})
             IN  [matched |-> TRUE, cap |-> SubSeq(t, a, b)]

(***************************************************************************)
(* h2text.match(/JOKES\s+(.+?):/), with "J" the word it looks for.         *)
(***************************************************************************)
CategoryCaps(t, i) ==
    LET e == WsEnd(t, i + 1)
    IN  {ab \in ((i + 2)..e) \X ((i + 2)..Len(t)) :
            /\ ab[1] <= ab[2]
            /\ ab[2] + 1 <= Len(t)
            /\ t[ab[2] + 1] = ":"}

CategoryMatch(t) ==
    LET starts == {i \in 1..Len(t) : t[i] = "J" /\ CategoryCaps(t, i) # {}}
    IN  IF starts = {} THEN NoMatch
        ELSE LET caps == CategoryCaps(t, MinOf(starts))
                 a == MaxOf({ab[1] : ab \in caps})
                 b == MinOf({ab[2] : ab \in {x \in caps : x[1] = a}})
             IN  [matched |-> TRUE, cap |-> SubSeq(t, a, b)]

(***************************************************************************)
(* bodyHtml.match(/openSharePopup\(`([^`]+)`/): "OSP(" is the call's name  *)
(* and parenthesis, "BT" a backtick.                                        *)
(***************************************************************************)
RECURSIVE TickEnd(_, _)
TickEnd(t, p) == IF p <= Len(t) /\ t[p] # "BT" THEN TickEnd(t, p + 1) ELSE p

ShareAt(t, i) ==
    /\ t[i] = "OSP("
    /\ i + 1 <= Len(t)
    /\ t[i + 1] = "BT"
    /\ TickEnd(t, i + 2) > i + 2
    /\ TickEnd(t, i + 2) <= Len(t)

ShareMatch(t) ==
    LET starts == {i \in 1..Len(t) : ShareAt(t, i)}
    IN  IF starts = {} THEN NoMatch
        ELSE LET i == MinOf(starts)
             IN  [matched |-> TRUE, cap |-> SubSeq(t, i + 2, TickEnd(t, i + 2) - 1)]

\* the url field: JOKES_BASE + "/joke.php?id=" + id
JokeUrl(id) == [base |-> "https://www.yo-yoo.co.il/jokes", path |-> "/joke.php?id=", id |-> id]

\* metaDesc.length > 3
META_MIN == 3

(***************************************************************************)
(* function parseJokePage(html, id)                                        *)
(***************************************************************************)
JokeFromShare(doc) ==
    LET shareMatch == ShareMatch(doc.body)
    IN  IF shareMatch.matched
        THEN Str(Trim(CollapseWs(CheerioText(shareMatch.cap))))
        ELSE Null

JokeFromMeta(doc, jokeText) ==
    LET metaDesc == Trim(doc.meta)
    IN  IF Len(metaDesc) > META_MIN THEN Str(metaDesc) ELSE jokeText

parseJokePageMetaFirst(doc, id) ==
    LET titleMatch == TitleMatch(Trim(doc.title))
        fromMeta == JokeFromMeta(doc, Null)
        catMatch == CategoryMatch(Trim(doc.h2))
    IN  [threw |-> FALSE,
         id |-> id,
         title |-> IF titleMatch.matched THEN Str(Trim(titleMatch.cap)) ELSE Null,
         joke |-> IF Falsy(fromMeta) THEN JokeFromShare(doc) ELSE fromMeta,
         category |-> IF catMatch.matched THEN Str(Trim(catMatch.cap)) ELSE Null,
         url |-> JokeUrl(id)]

\* as parseJokePage, with the earlier version's <p> fallback kept as a third source
parseJokePageWithParagraphs(doc, id) ==
    LET titleMatch == TitleMatch(Trim(doc.title))
        fromShare == JokeFromShare(doc)
        fromMeta == IF Falsy(fromShare) THEN JokeFromMeta(doc, fromShare) ELSE fromShare
        catMatch == CategoryMatch(Trim(doc.h2))
    IN  [threw |-> FALSE,
         id |-> id,
         title |-> IF titleMatch.matched THEN Str(Trim(titleMatch.cap)) ELSE Null,
         joke |-> IF Falsy(fromMeta) /\ doc.paras # <<>> THEN Str(doc.paras[1]) ELSE fromMeta,
         category |-> IF catMatch.matched THEN Str(Trim(catMatch.cap)) ELSE Null,
         url |-> JokeUrl(id)]

parseJokePage(doc, id) ==
    LET titleMatch == TitleMatch(Trim(doc.title))
        fromShare == JokeFromShare(doc)
        jokeText == IF Falsy(fromShare) THEN JokeFromMeta(doc, fromShare) ELSE fromShare
        catMatch == CategoryMatch(Trim(doc.h2))
    IN  [threw |-> FALSE,
         id |-> id,
         title |-> IF titleMatch.matched THEN Str(Trim(titleMatch.cap)) ELSE Null,
         joke |-> jokeText,
         category |-> IF catMatch.matched THEN Str(Trim(catMatch.cap)) ELSE Null,
         url |-> JokeUrl(id)]

(***************************************************************************)
(* function parseListingPage(html).  An anchor is [href, text]; an href is *)
(* a sequence of parts [kind, digits]: kind "joke" is the text             *)
(* "joke.php?id=", kind "id" some other text ending in "id=" (as "&pid="), *)
(* kind "text" anything else; digits are the decimal digits that follow.   *)
(***************************************************************************)
\* a[href*="joke.php?id="]
SelectorMatches(href) == \E i \in 1..Len(href) : href[i].kind = "joke"

\* Number("0012") = 12
RECURSIVE DigitsToNumber(_)
DigitsToNumber(ds) ==
    IF ds = <<>> THEN 0 ELSE 10 * DigitsToNumber(SubSeq(ds, 1, Len(ds) - 1)) + ds[Len(ds)]

\* href.match(/id=(\d+)/): the first "id=" with a digit after it
IdMatch(href) ==
    LET hits == {i \in 1..Len(href) : href[i].kind \in {"joke", "id"} /\ href[i].digits # <<>>}
    IN  IF hits = {} THEN [matched |-> FALSE, id |-> 0]
        ELSE [matched |-> TRUE, id |-> DigitsToNumber(href[MinOf(hits)].digits)]

HasId(jokes, id) == \E j \in 1..Len(jokes) : jokes[j].id = id

\* the callback of .each(), applied to one selected anchor
ListingStepNoDedupe(jokes, a) ==
    LET match == IdMatch(a.href)
        title == Trim(a.text)
    IN  IF match.matched /\ title # <<>>
        THEN Append(jokes, [id |-> match.id, title |-> title, url |-> JokeUrl(match.id)])
        ELSE jokes

ListingStep(jokes, a) ==
    LET match == IdMatch(a.href)
        title == Trim(a.text)
    IN  IF match.matched /\ title # <<>> /\ ~HasId(jokes, match.id)
        THEN Append(jokes, [id |-> match.id, title |-> title, url |-> JokeUrl(match.id)])
        ELSE jokes

RECURSIVE ListingFold(_, _)
ListingFold(jokes, anchors) ==
    IF anchors = <<>> THEN jokes
    ELSE ListingFold(IF SelectorMatches(Head(anchors).href)
                     THEN ListingStep(jokes, Head(anchors)) ELSE jokes,
                     Tail(anchors))

parseListingPage(anchors) == ListingFold(<<>>, anchors)

(***************************************************************************)
(* Documents tried.                                                        *)
(***************************************************************************)
JokeHref(ds) == <<[kind |-> "joke", digits |-> ds]>>

Hrefs ==
    { JokeHref(<<1, 2>>), JokeHref(<<7>>), JokeHref(<<0, 7>>), JokeHref(<<>>),
      <<[kind |-> "text", digits |-> <<>>]>>,
      <<[kind |-> "id", digits |-> <<1, 2>>]>>,
      <<[kind |-> "id", digits |-> <<3>>], [kind |-> "joke", digits |-> <<1, 2>>]>> }

AnchorTexts == { <<>>, <<" ">>, <<"w">>, <<" ", "w", "w", " ">> }

Anchors == [href : Hrefs, text : AnchorTexts]

Titles ==
    { <<>>,
      <<"L", " ", ":", " ", "w", "w", " ", "-", " ", "S", " ", "w">>,
      <<" ", "L", ":", "w", " ", "w", "-", "S">>,
      <<"L", ":", " ", "-", " ", "S">>,
      <<"L", " ", ":", " ", "w">>,
      <<"w", " ", "-", " ", "S">>,
      <<"w", "w">> }

Bodies ==
    { <<>>,
      <<"w", "OSP(", "BT", "w", " ", " ", "<b>", "w", "</b>", "&quot;", " ", "BT", "w">>,
      <<"OSP(", "BT", "BT", "w">>,
      <<"OSP(", "BT", "<br>", " ", "BT">>,
      <<"OSP(", "BT", "w", "w">>,
      <<"w", " ", "w">> }

Metas == { <<>>, <<" ", " ">>, <<"w", "w", "w">>, <<" ", "w", "w", "w", "w", " ">> }

Headings ==
    { <<>>,
      <<"w", " ", "J", " ", "w", "w", ":">>,
      <<"J", " ", " ", ":">>,
      <<"J", "w", ":">>,
      <<"w", "w">> }

Paragraphs == { <<>>, << <<"w", "w", "w", "w", "w", "w">> >>, << <<"SHARE", " ", "w", "w", "w", "w">> >> }

JokeDocs == [title : Titles, body : Bodies, meta : Metas, h2 : Headings, paras : Paragraphs]

JokeIds == {1, 4033}

NoOut == [threw |-> FALSE]

InitPg ==
    /\ pgPc \in {"listing", "joke"}
    /\ IF pgPc = "listing"
       THEN pgDoc \in SeqsUpTo(Anchors, MaxAnchors) /\ pgId = 0
       ELSE pgDoc \in JokeDocs /\ pgId \in JokeIds
    /\ pgOut = NoOut

IdlePg ==
    /\ pgPc = "idle"
    /\ pgDoc = <<>>
    /\ pgId = 0
    /\ pgOut = NoOut

\* const jokeLinks = parseListingPage(html)
ParseListing ==
    /\ pgPc = "listing"
    /\ pgOut' = [threw |-> FALSE, jokes |-> parseListingPage(pgDoc)]
    /\ pgPc' = "done-listing"
    /\ UNCHANGED <<pgDoc, pgId>>
    /\ UNCHANGED <<encVars, cacheVars, dictVars, jrVars, tdVars, decVars, svVars, rdVars, plVars, hqVars, hpVars>>

\* const joke = parseJokePage(html, id)
ParseJoke ==
    /\ pgPc = "joke"
    /\ pgOut' = parseJokePage(pgDoc, pgId)
    /\ pgPc' = "done-joke"
    /\ UNCHANGED <<pgDoc, pgId>>
    /\ UNCHANGED <<encVars, cacheVars, dictVars, jrVars, tdVars, decVars, svVars, rdVars, plVars, hqVars, hpVars>>

NextPg == ParseListing \/ ParseJoke

(***************************************************************************)
(* The Hebrew name dictionary and the normalizer lookups of the Pokemon    *)
(* routes.  Names, keys and values are token strings.  A JS object is      *)
(* [rows, own]: `own` holds the properties written out here, `rows` counts  *)
(* the properties "p1" .. "p<rows>" that the well-formed rows of a         *)
(* dictionary page add, each with its own value.  A lookup is synchronous: *)
(* no continuation of a load runs between its call and its return.         *)
(***************************************************************************)
Obj(f) == [rows |-> 0, own |-> f]
EmptyObj == Obj(EmptyMap)

DigitTokens == <<"0", "1", "2", "3", "4", "5", "6", "7", "8", "9">>
IsDigitToken(tok) == \E i \in 1..Len(DigitTokens) : DigitTokens[i] = tok
DigitValue(tok) == (CHOOSE i \in 1..Len(DigitTokens) : DigitTokens[i] = tok) - 1

\* "p<i>" is a property of an object with n rows when 1 <= i <= n
IsRowKey(key, n) ==
    /\ Len(key) >= 2
    /\ key[1] = "p"
    /\ \A i \in 2..Len(key) : IsDigitToken(key[i])
    /\ key[2] # "0"
    /\ DigitsToNumber([i \in 1..(Len(key) - 1) |-> DigitValue(key[i + 1])]) \in 1..n
RowValue(key) == <<"he:">> \o key

HasOwn(obj, key) == key \in DOMAIN obj.own \/ IsRowKey(key, obj.rows)
OwnValue(obj, key) ==
    IF key \in DOMAIN obj.own THEN obj.own[key] ELSE RowValue(key)

\* Object.keys(names).length
KeyCount(obj) == obj.rows + Cardinality({k \in DOMAIN obj.own : ~IsRowKey(k, obj.rows)})

\* names[apiName] = hebrewRaw
PutOwn(obj, key, value) == [obj EXCEPT !.own = MapSet(obj.own, key, value)]

\* properties every object literal inherits from Object.prototype
ProtoKeys == {<<"constructor">>, <<"toString">>}
InheritedValue == <<"[Function]">>

\* null or undefined used as a key
JsNull == <<"NULL">>

\* map[key]: own property, inherited property, or undefined
ObjGet(obj, key) ==
    IF key # JsNull /\ HasOwn(obj, key) THEN Str(OwnValue(obj, key))
    ELSE IF key \in ProtoKeys THEN Str(InheritedValue)
    ELSE Null

\* a || b
Or(a, b) == IF Falsy(a) THEN b ELSE a

TYPE_HE ==
    Obj((<<"fire">> :> <<"he-type:fire">>) @@ (<<"stellar">> :> <<"he-type:stellar">>))
STAT_HE ==
    Obj((<<"hp">> :> <<"he-stat:hp">>)
        @@ (<<"special", "-", "attack">> :> <<"he-stat:special-attack">>))
ABILITY_HE ==
    Obj((<<"blaze">> :> <<"he-ability:blaze">>)
        @@ (<<"run", "-", "away">> :> <<"he-ability:run-away">>))

StaticNames == {"TYPE_HE", "STAT_HE", "ABILITY_HE"}
StaticTable(name) ==
    CASE name = "TYPE_HE" -> TYPE_HE
      [] name = "STAT_HE" -> STAT_HE
      [] OTHER -> ABILITY_HE

\* function normalizeNameForApi(engName)
ToLowerCase(tok) ==
    CASE tok = "Fire" -> "fire"
      [] tok = "Mr" -> "mr"
      [] tok = "Mime" -> "mime"
      [] tok = "P" -> "p"
      [] OTHER -> tok

MapTokens(t, F(_)) == [i \in 1..Len(t) |-> F(t[i])]
DotToDash(tok) == IF tok = "." THEN "-" ELSE tok
AccentToPlain(tok) == IF tok = "é" THEN "e" ELSE tok
DropApostrophes(t) == SelectSeq(t, LAMBDA tok : tok # "'")

\* .replace(/\s+/g, "-") and .replace(/-+/g, "-"): a run becomes one "-"
RECURSIVE SquashRuns(_, _)
SquashRuns(t, run) ==
    IF t = <<>> THEN <<>>
    ELSE IF t[1] \in run
         THEN IF Len(t) > 1 /\ t[2] \in run
              THEN SquashRuns(Tail(t), run)
              ELSE <<"-">> \o SquashRuns(Tail(t), run)
         ELSE <<t[1]>> \o SquashRuns(Tail(t), run)

DropTrailingDash(t) ==
    IF t # <<>> /\ t[Len(t)] = "-" THEN SubSeq(t, 1, Len(t) - 1) ELSE t

normalizeNameForApi(engName) ==
    LET lower == MapTokens(engName, ToLowerCase)
        trimmed == Trim(lower)
        dashed == MapTokens(trimmed, DotToDash)
        bare == DropApostrophes(DropApostrophes(dashed))
        joined == SquashRuns(bare, WsTokens)
        plain == MapTokens(joined, AccentToPlain)
        single == SquashRuns(plain, {"-"})
    IN  DropTrailingDash(single)

\* parseInt(text, 10): the leading digits, NaN when there are none
RECURSIVE LeadingDigits(_)
LeadingDigits(t) ==
    IF t # <<>> /\ IsDigitToken(t[1]) THEN <<DigitValue(t[1])>> \o LeadingDigits(Tail(t)) ELSE <<>>
parseInt(t) ==
    IF LeadingDigits(t) = <<>> THEN [nan |-> TRUE, n |-> 0]
    ELSE [nan |-> FALSE, n |-> DigitsToNumber(LeadingDigits(t))]

\* the rows of a page beyond its well-formed ones: [cells, num, he, en]
ExtraRows ==
    { [cells |-> 3, num |-> <<"2", "5">>, he |-> <<"he:esh">>, en |-> <<"Fire">>],
      [cells |-> 4, num |-> <<"1", "2", "2">>, he |-> <<"he:mar-maim">>,
       en |-> <<"Mr", ".", "Mime">>],
      [cells |-> 3, num |-> <<"1", "2", "2">>, he |-> <<"he:mister-maim">>,
       en |-> <<" ", "Mr", ".", " ", "Mime", "'", ".">>],
      [cells |-> 3, num |-> <<"1">>, he |-> <<"he:other-p1">>, en |-> <<"P", "1">>],
      [cells |-> 3, num |-> <<"#">>, he |-> <<"he:header">>, en |-> <<"Mime">>],
      [cells |-> 3, num |-> <<"7">>, he |-> <<"he:dot">>, en |-> <<".">>] }

\* the threshold of `Object.keys(names).length > 100`
DICT_MIN == 100
RowCounts == {DICT_MIN - 1, DICT_MIN}

\* a dictionary page: `rows` well-formed rows p1 .. p<rows>, then the extra ones
Pages == [rows : RowCounts, extra : SeqsUpTo(ExtraRows, MaxRows)]

\* the body of the .each callback
RowStep(names, row) ==
    LET num == parseInt(Trim(row.num))
        hebrewRaw == Trim(row.he)
        englishRaw == Trim(row.en)
        apiName == normalizeNameForApi(englishRaw)
    IN  IF /\ row.cells >= 3
           /\ ~num.nan /\ num.n # 0
           /\ hebrewRaw # <<>>
           /\ englishRaw # <<>>
           /\ apiName # <<>>
        THEN PutOwn(names, apiName, hebrewRaw)
        ELSE names

RECURSIVE RowFold(_, _)
RowFold(names, rows) ==
    IF rows = <<>> THEN names ELSE RowFold(RowStep(names, Head(rows)), Tail(rows))

\* const names = {}; $("table tr, table tbody tr").each(...)
ParseDictionary(page) == RowFold([rows |-> page.rows, own |-> EmptyMap], page.extra)

\* if (Object.keys(names).length > 100)
EnoughNamesAtLeast(names) == KeyCount(names) >= DICT_MIN
EnoughNames(names) == KeyCount(names) > DICT_MIN

\* POKEMON_NAME_HE = names
InstallMerged(old, names) ==
    [rows |-> MaxOf({old.rows, names.rows}),
     own |-> [k \in DOMAIN old.own \cup DOMAIN names.own |->
                 IF k \in DOMAIN names.own THEN names.own[k] ELSE old.own[k]]]
Install(old, names) == names

DictKey == "he_name_dictionary"
DictCacheHit ==
    MapHas(cache, DictKey) /\ now - cache[DictKey].ts < CACHE_TTL("pokemon")

\* the lookups
KeyFalsy(key) == key = <<>> \/ key = JsNull
KeyValue(key) == IF key = JsNull THEN Null ELSE Str(key)

\* function he(map, key)
heDictionaryFirst(map, key) ==
    IF KeyFalsy(key) THEN Null
    ELSE Or(Or(ObjGet(POKEMON_NAME_HE, key), ObjGet(map, key)), Null)
he(map, key) == IF KeyFalsy(key) THEN Null ELSE Or(ObjGet(map, key), Null)

\* function heArray(map, arr)
heArrayNull(map, arr) == [i \in 1..Len(arr) |-> Or(ObjGet(map, arr[i]), Null)]
heArray(map, arr) == [i \in 1..Len(arr) |-> Or(ObjGet(map, arr[i]), KeyValue(arr[i]))]

\* function getName(names, langCode); names is a sequence of [language, name]
getName(names, langCode) ==
    LET found == {i \in 1..Len(names) : names[i].language = langCode}
    IN  IF found = {} THEN Null ELSE Or(Str(names[MinOf(found)].name), Null)

\* function getHebrewName(speciesNames, pokemonName)
getHebrewName(speciesNames, pokemonName) ==
    Or(Or(getName(speciesNames, "he"), ObjGet(POKEMON_NAME_HE, pokemonName)), Null)

\* buildFullPokemon: ABILITY_HE[a.ability.name] || null, STAT_HE[s.stat.name] || null
abilityNameHebrew(name) == Or(ObjGet(ABILITY_HE, name), Null)
statNameHebrew(name) == Or(ObjGet(STAT_HE, name), Null)

\* GET /types and GET /type/:type
typeNameHebrew(names, name) == Or(getName(names, "he"), he(TYPE_HE, name))

\* GET /evolution/:idOrName, walkChain: the dictionary first, then PokeAPI
chainNameHebrew(speciesName, names, fetched) ==
    LET fromMap == Or(ObjGet(POKEMON_NAME_HE, speciesName), Null)
    IN  IF Falsy(fromMap) /\ speciesName # JsNull /\ fetched
        THEN getName(names, "he")
        ELSE fromMap

LookupKeys ==
    { <<"fire">>, <<"mr", "-", "mime">>, <<"blaze">>, <<"shadow">>,
      <<"constructor">>, <<>>, JsNull }
ApiNames ==
    { <<[language |-> "en", name |-> <<"Fire">>]>>,
      <<[language |-> "en", name |-> <<"Fire">>], [language |-> "he", name |-> <<"he-api:esh">>]>>,
      <<[language |-> "he", name |-> <<>>]>> }
NoNames == <<>>
NoLookup == [fn |-> "none", map |-> "", key |-> <<>>, names |-> NoNames,
             got |-> Null, threw |-> FALSE]
NoLoad == [outcome |-> "none", count |-> 0]

Looked(fn, map, key, names, got) ==
    [fn |-> fn, map |-> map, key |-> key, names |-> names, got |-> got, threw |-> FALSE]

\* the module is loaded: the startup call at the bottom of the dictionary
\* section has run to its await
InitDict ==
    /\ POKEMON_NAME_HE = EmptyObj
    /\ heNamesDictLoaded = FALSE
    /\ loads = {1}
    /\ nLoads = 1
    /\ lastLoad = NoLoad
    /\ lastGood = EmptyObj
    /\ lookup = NoLookup

IdleDict ==
    /\ POKEMON_NAME_HE = EmptyObj
    /\ heNamesDictLoaded = FALSE
    /\ loads = {}
    /\ nLoads = 0
    /\ lastLoad = NoLoad
    /\ lastGood = EmptyObj
    /\ lookup = NoLookup

\* the Pokemon module's cache while the dictionary runs
DictCache ==
    /\ cacheMod = "pokemon"
    /\ cache = EmptyMap
    /\ slot = [ts |-> 0, data |-> "NULL"]
    /\ now = ClockStart
    /\ pending = {}
    /\ lastCall = NoCall
    /\ lastSet = [k \in AllKeys |-> NoSet]
    /\ nCalls = 0
    /\ nTicks = 0

DictCacheUnchanged == UNCHANGED <<cacheMod, slot, now, pending, lastCall, lastSet, nCalls, nTicks>>

\* loadHebrewNameDictionary(), to the await (or to its return)
LoadStart ==
    /\ lookup = NoLookup
    /\ nLoads < MaxLoads
    /\ nLoads' = nLoads + 1
    /\ IF heNamesDictLoaded
       THEN UNCHANGED <<POKEMON_NAME_HE, heNamesDictLoaded, loads>>
       ELSE IF DictCacheHit
            THEN /\ POKEMON_NAME_HE' = cache[DictKey].data
                 /\ heNamesDictLoaded' = TRUE
                 /\ UNCHANGED loads
            ELSE /\ loads' = loads \cup {nLoads + 1}
                 /\ UNCHANGED <<POKEMON_NAME_HE, heNamesDictLoaded>>
    /\ UNCHANGED <<cache, lastLoad, lastGood, lookup>>
    /\ DictCacheUnchanged
    /\ UNCHANGED <<encVars, pgVars, jrVars, tdVars, decVars, svVars, rdVars, plVars, hqVars, hpVars>>

\* the page arrives: parse it, install the table when it has enough names
LoadResponse ==
    /\ lookup = NoLookup
    /\ \E l \in loads, page \in Pages :
        LET names == ParseDictionary(page)
        IN  /\ loads' = loads \ {l}
            /\ IF EnoughNames(names)
               THEN /\ POKEMON_NAME_HE' = Install(POKEMON_NAME_HE, names)
                    /\ heNamesDictLoaded' = TRUE
                    /\ cache' = setCache("pokemon", cache, DictKey, names, now)
                    /\ lastGood' = names
                    /\ lastLoad' = [outcome |-> "ok", count |-> KeyCount(names)]
               ELSE /\ lastLoad' = [outcome |-> "few", count |-> KeyCount(names)]
                    /\ UNCHANGED <<POKEMON_NAME_HE, heNamesDictLoaded, cache, lastGood>>
            /\ UNCHANGED <<nLoads, lookup>>
            /\ DictCacheUnchanged
            /\ UNCHANGED <<encVars, pgVars, jrVars, tdVars, decVars, svVars, rdVars, plVars, hqVars, hpVars>>

\* axios.get rejects (timeout, network, status): the catch logs it
LoadError ==
    /\ lookup = NoLookup
    /\ \E l \in loads :
        /\ loads' = loads \ {l}
        /\ lastLoad' = [outcome |-> "error", count |-> 0]
        /\ UNCHANGED <<POKEMON_NAME_HE, heNamesDictLoaded, nLoads, lastGood, lookup, cache>>
        /\ DictCacheUnchanged
        /\ UNCHANGED <<encVars, pgVars, jrVars, tdVars, decVars, svVars, rdVars, plVars, hqVars, hpVars>>

LookupUnchanged ==
    /\ UNCHANGED <<POKEMON_NAME_HE, heNamesDictLoaded, loads, nLoads, lastLoad, lastGood, cache>>
    /\ DictCacheUnchanged
    /\ UNCHANGED <<encVars, pgVars, jrVars, tdVars, decVars, svVars, rdVars, plVars, hqVars, hpVars>>

LookupHe ==
    /\ lookup = NoLookup
    /\ \E map \in StaticNames, key \in LookupKeys :
        /\ lookup' = Looked("he", map, key, NoNames, he(StaticTable(map), key))
        /\ LookupUnchanged

\* one element stands for the array: heArray maps each element by itself
LookupHeArray ==
    /\ lookup = NoLookup
    /\ \E map \in StaticNames, key \in LookupKeys :
        /\ lookup' = Looked("heArray", map, key, NoNames, heArray(StaticTable(map), <<key>>)[1])
        /\ LookupUnchanged

LookupHebrewName ==
    /\ lookup = NoLookup
    /\ \E names \in ApiNames, key \in LookupKeys :
        /\ lookup' = Looked("getHebrewName", "", key, names, getHebrewName(names, key))
        /\ LookupUnchanged

LookupAbility ==
    /\ lookup = NoLookup
    /\ \E key \in LookupKeys :
        /\ lookup' = Looked("ability", "ABILITY_HE", key, NoNames, abilityNameHebrew(key))
        /\ LookupUnchanged

LookupStat ==
    /\ lookup = NoLookup
    /\ \E key \in LookupKeys :
        /\ lookup' = Looked("stat", "STAT_HE", key, NoNames, statNameHebrew(key))
        /\ LookupUnchanged

LookupTypeName ==
    /\ lookup = NoLookup
    /\ \E names \in ApiNames, key \in LookupKeys :
        /\ lookup' = Looked("typeName", "TYPE_HE", key, names, typeNameHebrew(names, key))
        /\ LookupUnchanged

LookupChainName ==
    /\ lookup = NoLookup
    /\ \E names \in ApiNames, key \in LookupKeys, fetched \in BOOLEAN :
        /\ lookup' = Looked(IF fetched THEN "chainName" ELSE "chainNameUnfetched",
                            "", key, names, chainNameHebrew(key, names, fetched))
        /\ LookupUnchanged

\* the lookup's caller goes on
LookupReturn ==
    /\ lookup # NoLookup
    /\ lookup' = NoLookup
    /\ LookupUnchanged

NextDict ==
    \/ LoadStart \/ LoadResponse \/ LoadError
    \/ LookupHe \/ LookupHeArray \/ LookupHebrewName
    \/ LookupAbility \/ LookupStat \/ LookupTypeName \/ LookupChainName
    \/ LookupReturn

(***************************************************************************)
(* The jokes routes GET /latest, GET /category/:slug and GET /:id.  One    *)
(* request is followed from its arrival to its response.  A fetchPage call *)
(* ends with a page (from the cache or the network) or rejects; the joke   *)
(* page fetches of a listing run concurrently and end in any order.        *)
(***************************************************************************)
LIMIT_DEFAULT == 10
LIMIT_MIN == 1
LIMIT_MAX == 20
ID_MIN == 1

\* Number(text) of a query or path parameter: an optional "-" and decimal
\* digits give the integer, anything else NaN; an absent parameter is <<>>
AllDigits(t) == t # <<>> /\ \A i \in 1..Len(t) : IsDigitToken(t[i])
DigitsOf(t) == DigitsToNumber([i \in 1..Len(t) |-> DigitValue(t[i])])
NaN == [nan |-> TRUE, n |-> 0]
Number(t) ==
    IF AllDigits(t) THEN [nan |-> FALSE, n |-> DigitsOf(t)]
    ELSE IF t # <<>> /\ t[1] = "-" /\ AllDigits(Tail(t))
         THEN [nan |-> FALSE, n |-> 0 - DigitsOf(Tail(t))]
         ELSE NaN

\* Math.min(Math.max(Number(req.query.limit) || 10, 1), 20)
ClampLimit(text) ==
    LET q == Number(text)
        v == IF q.nan \/ q.n = 0 THEN LIMIT_DEFAULT ELSE q.n
    IN  MinOf({MaxOf({v, LIMIT_MIN}), LIMIT_MAX})

\* .slice(0, limit)
Slice(q, limit) == SubSeq(q, 1, MinOf({limit, Len(q)}))

\* CATEGORIES.find((c) => c.slug === slug) after .toLowerCase().trim()
CategorySlugs == {"animals", "dad"}
LowerSlug(slug) == IF slug = "Animals" THEN "animals" ELSE slug
KnownCategory(slug) == LowerSlug(slug) \in CategorySlugs

\* how a fetch rejects: a response with an error status, or none in time
FailKinds == {"status404", "status500", "timeout"}

Pending == [pending |-> TRUE]

\* { ...link, joke: null }
LinkWithEmptyJoke(link) ==
    [id |-> link.id, title |-> link.title, url |-> link.url, joke |-> Str(<<>>)]
LinkWithoutJoke(link) == [id |-> link.id, title |-> link.title, url |-> link.url, joke |-> Null]

LimitTexts == { <<>>, <<"0">>, <<"-", "3">>, <<"1">>, <<"2">>, <<"2", "5">>, <<"x">> }
SlugTexts == {"animals", "Animals", "nope"}
IdTexts == { <<"x">>, <<"0">>, <<"-", "1">>, <<"1">>, <<"4", "0", "3", "3">> }

ListingAnchor(ds, text) == [href |-> JokeHref(ds), text |-> text]
ListingPages ==
    { <<>>,
      <<ListingAnchor(<<1, 2>>, <<"w">>)>>,
      <<ListingAnchor(<<1, 2>>, <<"w">>), ListingAnchor(<<7>>, <<"w", "w">>),
        ListingAnchor(<<1, 2>>, <<"w">>)>>,
      <<ListingAnchor(<<1, 2>>, <<>>), ListingAnchor(<<7>>, <<"w">>),
        ListingAnchor(<<1, 2>>, <<" ", "w">>), ListingAnchor(<<3>>, <<"w">>)>> }

RouteDocs ==
    { [title |-> <<"L", " ", ":", " ", "w", "w", " ", "-", " ", "S", " ", "w">>,
       body |-> <<"w", "OSP(", "BT", "w", "w", "BT", "w">>, meta |-> <<>>,
       h2 |-> <<"w", " ", "J", " ", "w", "w", ":">>, paras |-> <<>>],
      [title |-> <<"w", "w">>, body |-> <<"w", " ", "w">>,
       meta |-> <<" ", "w", "w", "w", "w", " ">>, h2 |-> <<>>, paras |-> <<>>],
      [title |-> <<"w", "w">>, body |-> <<"OSP(", "BT", "<br>", " ", "BT">>,
       meta |-> <<>>, h2 |-> <<>>, paras |-> <<>>],
      [title |-> <<"w", "w">>, body |-> <<"w", " ", "w">>, meta |-> <<>>, h2 |-> <<>>,
       paras |-> << <<"w", "w", "w", "w", "w", "w">> >>] }

NoPage == [arrived |-> FALSE, anchors |-> <<>>]
NoReq == [limit |-> <<>>, slug |-> "", id |-> <<>>]

InitJr ==
    /\ jrRoute \in {"latest", "category", "id"}
    /\ jrReq \in [limit : IF jrRoute = "id" THEN {<<>>} ELSE LimitTexts,
                  slug : IF jrRoute = "category" THEN SlugTexts ELSE {""},
                  id : IF jrRoute = "id" THEN IdTexts ELSE {<<>>}]
    /\ jrPc = "start"
    /\ jrPage = NoPage
    /\ jrLinks = <<>>
    /\ jrOut = <<>>
    /\ jrFail = {}
    /\ jrFetches = 0
    /\ jrResp = <<>>

IdleJr ==
    /\ jrRoute = "idle"
    /\ jrReq = NoReq
    /\ jrPc = "done"
    /\ jrPage = NoPage
    /\ jrLinks = <<>>
    /\ jrOut = <<>>
    /\ jrFail = {}
    /\ jrFetches = 0
    /\ jrResp = <<>>

\* res.status(code).json(body)
Send(status, body) ==
    /\ jrResp' = Append(jrResp, [status |-> status, body |-> body])
    /\ jrPc' = "done"

JrOthersUnchanged == UNCHANGED <<encVars, cacheVars, pgVars, dictVars, tdVars, decVars, svVars, rdVars, plVars, hqVars, hpVars>>

\* GET /latest, to the await of the listing page
LatestStart ==
    /\ jrRoute = "latest" /\ jrPc = "start"
    /\ jrPc' = "listing"
    /\ jrFetches' = jrFetches + 1
    /\ UNCHANGED <<jrRoute, jrReq, jrPage, jrLinks, jrOut, jrFail, jrResp>>
    /\ JrOthersUnchanged

\* GET /category/:slug, to its 404 or to the await of the listing page
CategoryStart ==
    /\ jrRoute = "category" /\ jrPc = "start"
    /\ IF KnownCategory(jrReq.slug)
       THEN /\ jrPc' = "listing"
            /\ jrFetches' = jrFetches + 1
            /\ UNCHANGED jrResp
       ELSE /\ Send(404, [error |-> "Category not found"])
            /\ UNCHANGED jrFetches
    /\ UNCHANGED <<jrRoute, jrReq, jrPage, jrLinks, jrOut, jrFail>>
    /\ JrOthersUnchanged

\* the listing page arrives: the links are cut to the limit and every joke
\* page is asked for
ListingArrives ==
    /\ jrPc = "listing"
    /\ \E page \in ListingPages :
         LET jokeLinks == Slice(parseListingPage(page), ClampLimit(jrReq.limit))
         IN  /\ jrPage' = [arrived |-> TRUE, anchors |-> page]
             /\ jrLinks' = jokeLinks
             /\ jrOut' = [i \in 1..Len(jokeLinks) |-> Pending]
             /\ jrFetches' = jrFetches + Len(jokeLinks)
    /\ jrPc' = "jokes"
    /\ UNCHANGED <<jrRoute, jrReq, jrFail, jrResp>>
    /\ JrOthersUnchanged

\* the listing page fetch rejects: the outer catch
ListingFails ==
    /\ jrPc = "listing"
    /\ \E kind \in FailKinds : Send(502, [error |-> "Failed to fetch jokes"])
    /\ UNCHANGED <<jrRoute, jrReq, jrPage, jrLinks, jrOut, jrFail, jrFetches>>
    /\ JrOthersUnchanged

\* one joke page of the fan-out arrives
JokeArrives ==
    /\ jrPc = "jokes"
    /\ \E i \in 1..Len(jrLinks), doc \in RouteDocs :
         /\ jrOut[i] = Pending
         /\ jrOut' = [jrOut EXCEPT ![i] = parseJokePage(doc, jrLinks[i].id)]
    /\ UNCHANGED <<jrRoute, jrReq, jrPc, jrPage, jrLinks, jrFail, jrFetches, jrResp>>
    /\ JrOthersUnchanged

\* one joke page fetch of the fan-out rejects: the inner catch
JokeFails ==
    /\ jrPc = "jokes"
    /\ \E i \in 1..Len(jrLinks), kind \in FailKinds :
         /\ jrOut[i] = Pending
         /\ jrOut' = [jrOut EXCEPT ![i] = LinkWithoutJoke(jrLinks[i])]
         /\ jrFail' = jrFail \cup {i}
    /\ UNCHANGED <<jrRoute, jrReq, jrPc, jrPage, jrLinks, jrFetches, jrResp>>
    /\ JrOthersUnchanged

\* Promise.all resolves: res.json({ ..., count: jokes.length, jokes })
BatchResponds ==
    /\ jrPc = "jokes"
    /\ \A i \in 1..Len(jrOut) : jrOut[i] # Pending
    /\ Send(200, [count |-> Len(jrOut), jokes |-> jrOut])
    /\ UNCHANGED <<jrRoute, jrReq, jrPage, jrLinks, jrOut, jrFail, jrFetches>>
    /\ JrOthersUnchanged

\* GET /:id, to its 400 or to the await of the joke page
IdStart ==
    /\ jrRoute = "id" /\ jrPc = "start"
    /\ LET id == Number(jrReq.id)
       IN  IF id.nan \/ id.n < ID_MIN
           THEN /\ Send(400, [error |-> "Invalid joke ID"])
                /\ UNCHANGED jrFetches
           ELSE /\ jrPc' = "page"
                /\ jrFetches' = jrFetches + 1
                /\ UNCHANGED jrResp
    /\ UNCHANGED <<jrRoute, jrReq, jrPage, jrLinks, jrOut, jrFail>>
    /\ JrOthersUnchanged

\* the joke page arrives (jrPage keeps the document for the record)
PageArrives ==
    /\ jrPc = "page"
    /\ \E doc \in RouteDocs :
         LET joke == parseJokePage(doc, Number(jrReq.id).n)
         IN  /\ IF Falsy(joke.joke)
                THEN Send(404, [error |-> "Joke not found or empty"])
                ELSE Send(200, joke)
             /\ jrPage' = [arrived |-> TRUE, anchors |-> <<>>, doc |-> doc]
    /\ UNCHANGED <<jrRoute, jrReq, jrLinks, jrOut, jrFail, jrFetches>>
    /\ JrOthersUnchanged

\* a catch that answers a timeout with a status of its own
JokeErrorGatewayTimeout(kind) ==
    CASE kind = "status404" -> [status |-> 404, body |-> [error |-> "Joke not found"]]
      [] kind = "timeout" -> [status |-> 504, body |-> [error |-> "Failed to fetch joke"]]
      [] OTHER -> [status |-> 502, body |-> [error |-> "Failed to fetch joke"]]

\* catch (err) of GET /:id: 404 for an upstream 404, 502 for everything else
JokeError(kind) ==
    IF kind = "status404"
    THEN [status |-> 404, body |-> [error |-> "Joke not found"]]
    ELSE [status |-> 502, body |-> [error |-> "Failed to fetch joke"]]

\* the joke page fetch rejects
PageFails ==
    /\ jrPc = "page"
    /\ \E kind \in FailKinds :
         /\ Send(JokeError(kind).status, JokeError(kind).body)
         /\ jrFail' = {kind}
    /\ UNCHANGED <<jrRoute, jrReq, jrPage, jrLinks, jrOut, jrFetches>>
    /\ JrOthersUnchanged

NextJr ==
    \/ LatestStart \/ CategoryStart \/ ListingArrives \/ ListingFails
    \/ JokeArrives \/ JokeFails \/ BatchResponds
    \/ IdStart \/ PageArrives \/ PageFails

(***************************************************************************)
(* fetchToday of the soccer routes and of the standalone server: one       *)
(* request per league, all in flight together, ending in any order.  A     *)
(* call that finds no fresh payload in the cache is followed to its end.   *)
(* An event of a scoreboard is "match" (parses to a match), "empty" (no    *)
(* competition or no home/away side: parseEvent returns null) or "broken"  *)
(* (not an object: parseEvent throws).                                     *)
(***************************************************************************)
LEAGUES == <<"eng.1", "esp.1", "ger.1">>
LeagueIds == 1..Len(LEAGUES)

EventKinds == {"match", "empty", "broken"}
Scoreboards == SeqsUpTo(EventKinds, MaxEvents)
AnswerKinds == {"ok", "status", "timeout"}
NoAnswer == [kind |-> "none", events |-> <<>>]

\* function parseEvent(event, leagueMeta): the match, null, or a TypeError
parseEvent(events, k, league) ==
    CASE events[k] = "match" -> [threw |-> FALSE, isNull |-> FALSE, league |-> league, event |-> k]
      [] events[k] = "empty" -> [threw |-> FALSE, isNull |-> TRUE, league |-> league, event |-> k]
      [] OTHER -> [threw |-> TRUE, isNull |-> TRUE, league |-> league, event |-> k]

ParsedEvents(events, league) == [k \in 1..Len(events) |-> parseEvent(events, k, league)]
AsMatch(parsed) == [league |-> parsed.league, event |-> parsed.event]
KeepMatches(parsedSeq) ==
    LET kept == SelectSeq(parsedSeq, LAMBDA x : ~x.isNull)
    IN  [k \in 1..Len(kept) |-> AsMatch(kept[k])]

\* function fetchLeague(league): the try and its catch
fetchLeagueKeepsParsed(answer, league) ==
    IF answer.kind # "ok" THEN <<>>
    ELSE KeepMatches(ParsedEvents(answer.events, league))
fetchLeague(answer, league) ==
    IF answer.kind # "ok" THEN <<>>
    ELSE LET parsed == ParsedEvents(answer.events, league)
         IN  IF \E k \in 1..Len(parsed) : parsed[k].threw THEN <<>> ELSE KeepMatches(parsed)

\* results.filter((r) => r.status === "fulfilled").flatMap((r) => r.value)
FulfilledValues(settled) ==
    Flatten([i \in 1..Len(settled) |->
                IF settled[i].status = "fulfilled" THEN settled[i].value ELSE <<>>])

TodayPayload(matches) == [source |-> "ESPN", count |-> Len(matches), matches |-> matches]

NoPayload == [source |-> "", count |-> 0, matches |-> <<>>]
NoResult == [state |-> "pending", value |-> NoPayload]

InitTd ==
    /\ tdMod \in {"routes", "standalone"}
    /\ tdPc = "start"
    /\ tdAnswer = [i \in LeagueIds |-> NoAnswer]
    /\ tdSettled = [i \in LeagueIds |-> Pending]
    /\ tdStored = NoPayload
    /\ tdResult = NoResult

IdleTd ==
    /\ tdMod = "idle"
    /\ tdPc = "done"
    /\ tdAnswer = [i \in LeagueIds |-> NoAnswer]
    /\ tdSettled = [i \in LeagueIds |-> Pending]
    /\ tdStored = NoPayload
    /\ tdResult = NoResult

TdOthersUnchanged == UNCHANGED <<encVars, cacheVars, pgVars, dictVars, jrVars, decVars, svVars, rdVars, plVars, hqVars, hpVars>>

\* fetchToday(), cache miss: LEAGUES.map((l) => fetchLeague(l)), to the await
TodayStart ==
    /\ tdPc = "start"
    /\ tdPc' = "waiting"
    /\ UNCHANGED <<tdMod, tdAnswer, tdSettled, tdStored, tdResult>>
    /\ TdOthersUnchanged

\* one league's request ends, with a scoreboard or with an error
LeagueSettles ==
    /\ tdPc = "waiting"
    /\ \E i \in LeagueIds, kind \in AnswerKinds, events \in Scoreboards :
         /\ tdSettled[i] = Pending
         /\ kind # "ok" => events = <<>>
         /\ LET answer == [kind |-> kind, events |-> events]
            IN  /\ tdAnswer' = [tdAnswer EXCEPT ![i] = answer]
                /\ tdSettled' = [tdSettled EXCEPT
                                   ![i] = [status |-> "fulfilled",
                                           value |-> fetchLeague(answer, LEAGUES[i])]]
    /\ UNCHANGED <<tdMod, tdPc, tdStored, tdResult>>
    /\ TdOthersUnchanged

\* every league has settled: the payload is built, cached and returned
TodayResolves ==
    /\ tdPc = "waiting"
    /\ \A i \in LeagueIds : tdSettled[i] # Pending
    /\ LET payload == TodayPayload(FulfilledValues(tdSettled))
       IN  /\ tdStored' = payload
           /\ tdResult' = [state |-> "resolved", value |-> payload]
    /\ tdPc' = "done"
    /\ UNCHANGED <<tdMod, tdAnswer, tdSettled>>
    /\ TdOthersUnchanged

NextTd == TodayStart \/ LeagueSettles \/ TodayResolves

(***************************************************************************)
(* fetchPage's decoding step: the response body, whatever bytes it holds,  *)
(* goes through new TextDecoder("windows-1255").decode(buf).  The decoder  *)
(* is built without { fatal: true }, so a byte outside the index yields    *)
(* U+FFFD and decode has no throwing path.                                 *)
(***************************************************************************)
\* the bytes tried: the ends of the ASCII half, of the Hebrew letters and of
\* every other stretch of the table, and each kind of unmapped byte
ByteSamples ==
    {0, 10, 60, 97, 127, 128, 129, 164, 191, 192, 211, 212, 216,
     217, 223, WIN_HEB_BASE, 235, 250, 251, 252, 253, 254, 255}

InitDec ==
    /\ decPc = "start"
    /\ decIn \in SeqsUpTo(ByteSamples, MaxStrLen)
    /\ decOut = <<>>

IdleDec ==
    /\ decPc = "idle"
    /\ decIn = <<>>
    /\ decOut = <<>>

\* const html = new TextDecoder("windows-1255").decode(buf)
DecodePage ==
    /\ decPc = "start"
    /\ decOut' = TextDecodeWin1255(decIn)
    /\ decPc' = "decoded"
    /\ UNCHANGED decIn
    /\ UNCHANGED <<encVars, cacheVars, pgVars, dictVars, jrVars, tdVars, svVars, rdVars, plVars, hqVars, hpVars>>

NextDec == DecodePage

(***************************************************************************)
(* The Express applications: src/server.js (static files, then the proxy   *)
(* secret check, then /health and the routers) and the standalone soccer   *)
(* server (the proxy secret check, then /health and the soccer routes).    *)
(* A request walks the stack in registration order until a middleware      *)
(* answers it.                                                             *)
(***************************************************************************)
EnvValues == {"UNSET", "", "s1"}
HeaderValues == {"ABSENT", "", "s1", "s2"}
Methods == {"GET", "HEAD", "POST"}
ClientFiles == {"/index.html", "/app.js"}
ApiPaths == {"/health", "/soccer/today", "/jokes/1"}
Paths == {"/"} \cup ClientFiles \cup ApiPaths \cup {"/nope"}

\* const RAPID_PROXY_SECRET = process.env.RAPID_PROXY_SECRET || null
RAPID_PROXY_SECRET(env) == IF env \in {"UNSET", ""} THEN "NULL" ELSE env

\* express.static: GET and HEAD of an existing file (a directory gives its index.html)
StaticFile(files, req) ==
    LET path == IF req.path = "/" THEN "/index.html" ELSE req.path
    IN  IF req.method \in {"GET", "HEAD"} /\ path \in files THEN path ELSE "NONE"

\* the routes after the check: /health, and the routers mounted by prefix
RouteOf(app, req) ==
    IF req.path = "/health" /\ req.method \in {"GET", "HEAD"} THEN "health"
    ELSE IF req.path = "/soccer/today" /\ req.method \in {"GET", "HEAD"} THEN "soccer"
    ELSE IF req.path = "/jokes/1" /\ req.method \in {"GET", "HEAD"} /\ app = "main" THEN "jokes"
    ELSE "notfound"

InitSv ==
    /\ svApp \in {"main", "standalone"}
    /\ svEnv \in EnvValues
    /\ svFiles \in SUBSET ClientFiles
    /\ svReq \in [method : Methods, path : Paths, header : HeaderValues]
    /\ svPc = IF svApp = "main" THEN "static" ELSE "secret"
    /\ svSeen = {}
    /\ svResp = <<>>

IdleSv ==
    /\ svApp = "idle"
    /\ svEnv = "UNSET"
    /\ svFiles = {}
    /\ svReq = [method |-> "GET", path |-> "/", header |-> "ABSENT"]
    /\ svPc = "done"
    /\ svSeen = {}
    /\ svResp = <<>>

SvOthersUnchanged == UNCHANGED <<encVars, cacheVars, pgVars, dictVars, jrVars, tdVars, decVars, rdVars, plVars, hqVars, hpVars>>

\* app.use(express.static(join(__dirname, "client")))
ServeStatic ==
    /\ svPc = "static"
    /\ LET file == StaticFile(svFiles, svReq)
       IN  IF file # "NONE"
           THEN /\ svResp' = Append(svResp, [status |-> 200, by |-> file])
                /\ svSeen' = svSeen \cup {"static"}
                /\ svPc' = "done"
           ELSE /\ svPc' = "secret"
                /\ UNCHANGED <<svResp, svSeen>>
    /\ UNCHANGED <<svApp, svEnv, svFiles, svReq>>
    /\ SvOthersUnchanged

\* the proxy secret middleware
CheckSecret ==
    /\ svPc = "secret"
    /\ IF RAPID_PROXY_SECRET(svEnv) = "NULL" THEN svPc' = "routes" /\ UNCHANGED svResp
       ELSE IF svReq.header # RAPID_PROXY_SECRET(svEnv)
       THEN /\ svResp' = Append(svResp, [status |-> 403, by |-> "secret"])
            /\ svPc' = "done"
       ELSE svPc' = "routes" /\ UNCHANGED svResp
    /\ UNCHANGED <<svApp, svEnv, svFiles, svReq, svSeen>>
    /\ SvOthersUnchanged

\* app.get("/health", ...), the routers, and Express's final 404
Route ==
    /\ svPc = "routes"
    /\ LET route == RouteOf(svApp, svReq)
       IN  /\ svResp' = Append(svResp, [status |-> IF route = "notfound" THEN 404 ELSE 200,
                                        by |-> route])
           /\ svSeen' = IF route = "notfound" THEN svSeen ELSE svSeen \cup {route}
    /\ svPc' = "done"
    /\ UNCHANGED <<svApp, svEnv, svFiles, svReq>>
    /\ SvOthersUnchanged

NextSv == ServeStatic \/ CheckSecret \/ Route

(***************************************************************************)
(* GET /jokes/random.  count is a JavaScript number and need not be whole  *)
(* (?count=2.5), so numbers of this route are kept in tenths.  One         *)
(* iteration of the while loop is a pick, and for an id not tried before   *)
(* the await of its page.                                                  *)
(***************************************************************************)
MAX_JOKE_ID == 4035
COUNT_DEFAULT == 1
COUNT_MIN == 1
COUNT_MAX == 10
ATTEMPTS_PER_JOKE == 5
JOKE_MIN == 3

\* Number(text) in tenths: digits, at most one fractional digit, a leading minus
NumberTenths(t) ==
    LET neg == t # <<>> /\ t[1] = "-"
        u == IF neg THEN Tail(t) ELSE t
        dots == {i \in 1..Len(u) : u[i] = "."}
        whole == IF dots = {} THEN u ELSE SubSeq(u, 1, MinOf(dots) - 1)
        frac == IF dots = {} THEN <<>> ELSE SubSeq(u, MinOf(dots) + 1, Len(u))
        ok == /\ AllDigits(whole)
              /\ dots = {} \/ (Cardinality(dots) = 1 /\ Len(frac) = 1 /\ AllDigits(frac))
        mag == 10 * DigitsOf(whole) + (IF frac = <<>> THEN 0 ELSE DigitsOf(frac))
    IN  IF t = <<>> THEN [nan |-> FALSE, n |-> 0]
        ELSE IF ok THEN [nan |-> FALSE, n |-> IF neg THEN 0 - mag ELSE mag]
        ELSE [nan |-> TRUE, n |-> 0]

\* Math.min(Math.max(Number(req.query.count) || 1, 1), 10), in tenths
ClampCount(text) ==
    LET q == NumberTenths(text)
        v == IF q.nan \/ q.n = 0 THEN 10 * COUNT_DEFAULT ELSE q.n
    IN  MinOf({MaxOf({v, 10 * COUNT_MIN}), 10 * COUNT_MAX})

\* a loop test that lets the attempt after the last one in
LoopGoesOnOneMore(jokes, attempts, count) ==
    10 * Len(jokes) < count /\ 10 * attempts <= count * ATTEMPTS_PER_JOKE

\* while (jokes.length < count && attempts < count * 5), count in tenths
LoopGoesOn(jokes, attempts, count) ==
    10 * Len(jokes) < count /\ 10 * attempts < count * ATTEMPTS_PER_JOKE

\* a test that takes every joke text there is
KeepJokeAnyText(joke) == ~Falsy(joke.joke)

\* if (joke.joke && joke.joke.length > 3)
KeepJoke(joke) == ~Falsy(joke.joke) /\ Len(joke.joke.text) > JOKE_MIN

\* the count parameters tried
CountTexts == { <<>>, <<"x">>, <<"0">>, <<"-", "1">>, <<"2">>, <<"2", ".", "5">>, <<"9", "9">> }

\* Math.floor(Math.random() * MAX_JOKE_ID) + 1: the ids that come up
RandomIds == {1, 2, 3, MAX_JOKE_ID}

\* the pages: a joke in the share call, a joke of two characters, a joke in
\* the meta description only, and a page without a joke
RandomDocs ==
    { [title |-> <<"w", "w">>, body |-> <<"OSP(", "BT", "w", "w", " ", "w", "w", "BT">>,
       meta |-> <<>>, h2 |-> <<>>, paras |-> <<>>],
      [title |-> <<"w", "w">>, body |-> <<"OSP(", "BT", "w", "w", "BT">>,
       meta |-> <<>>, h2 |-> <<>>, paras |-> <<>>],
      [title |-> <<"w", "w">>, body |-> <<"w">>,
       meta |-> <<"w", "w", "w", "w">>, h2 |-> <<>>, paras |-> <<>>],
      [title |-> <<>>, body |-> <<"w">>, meta |-> <<>>, h2 |-> <<>>, paras |-> <<>>] }

InitRd ==
    /\ rdPc = "loop"
    /\ rdQuery \in CountTexts
    /\ rdJokes = <<>>
    /\ rdTried = {}
    /\ rdAttempts = 0
    /\ rdId = 0
    /\ rdFetches = 0
    /\ rdResp = <<>>

IdleRd ==
    /\ rdPc = "idle"
    /\ rdQuery = <<>>
    /\ rdJokes = <<>>
    /\ rdTried = {}
    /\ rdAttempts = 0
    /\ rdId = 0
    /\ rdFetches = 0
    /\ rdResp = <<>>

RdOthersUnchanged ==
    UNCHANGED <<encVars, cacheVars, pgVars, dictVars, jrVars, tdVars, decVars, svVars, plVars, hqVars, hpVars>>

\* one pass of the loop head: attempts++, the random id, `continue` for a
\* tried id, else tried.add(id) and the await of fetchPage
RandomPick ==
    /\ rdPc = "loop"
    /\ LoopGoesOn(rdJokes, rdAttempts, ClampCount(rdQuery))
    /\ rdAttempts' = rdAttempts + 1
    /\ \E id \in RandomIds :
         IF id \in rdTried
         THEN UNCHANGED <<rdPc, rdTried, rdId, rdFetches>>
         ELSE /\ rdTried' = rdTried \cup {id}
              /\ rdId' = id
              /\ rdFetches' = rdFetches + 1
              /\ rdPc' = "await"
    /\ UNCHANGED <<rdQuery, rdJokes, rdResp>>
    /\ RdOthersUnchanged

\* the page arrives: parseJokePage, and the push of a joke long enough
RandomPageArrives ==
    /\ rdPc = "await"
    /\ \E doc \in RandomDocs :
         LET joke == parseJokePage(doc, rdId)
         IN  rdJokes' = IF KeepJoke(joke) THEN Append(rdJokes, joke) ELSE rdJokes
    /\ rdPc' = "loop"
    /\ rdId' = 0
    /\ UNCHANGED <<rdQuery, rdTried, rdAttempts, rdFetches, rdResp>>
    /\ RdOthersUnchanged

\* fetchPage rejects: `catch { }` skips the id
RandomPageFails ==
    /\ rdPc = "await"
    /\ rdPc' = "loop"
    /\ rdId' = 0
    /\ UNCHANGED <<rdQuery, rdJokes, rdTried, rdAttempts, rdFetches, rdResp>>
    /\ RdOthersUnchanged

\* the loop ends: res.json({ source, count: jokes.length, jokes })
RandomResponds ==
    /\ rdPc = "loop"
    /\ ~LoopGoesOn(rdJokes, rdAttempts, ClampCount(rdQuery))
    /\ rdResp' = Append(rdResp, [status |-> 200,
                                 body |-> [count |-> Len(rdJokes), jokes |-> rdJokes]])
    /\ rdPc' = "done"
    /\ UNCHANGED <<rdQuery, rdJokes, rdTried, rdAttempts, rdId, rdFetches>>
    /\ RdOthersUnchanged

NextRd == RandomPick \/ RandomPageArrives \/ RandomPageFails \/ RandomResponds

(***************************************************************************)
(* The paginated routes /pokemon/list, /pokemon/type/:type and             *)
(* /pokemon/generation/:gen.  limit and offset are JavaScript numbers and  *)
(* need not be whole, so they are kept in tenths.  The entries PokeAPI has *)
(* are numbered 1..plTotal; a page is the sequence of the numbers it       *)
(* holds (each becomes one summary, or one error record when its fetch     *)
(* fails, so the page keeps its length).                                   *)
(***************************************************************************)
MaxItems == 4

PAGE_DEFAULT == 20
PAGE_MIN == 1
PAGE_MAX == 50

\* a limit without its upper clamp
PageLimitUnclamped(text) ==
    LET q == NumberTenths(text)
        v == IF q.nan \/ q.n = 0 THEN 10 * PAGE_DEFAULT ELSE q.n
    IN  MaxOf({v, 10 * PAGE_MIN})

\* Math.min(Math.max(Number(req.query.limit) || 20, 1), 50), in tenths
PageLimit(text) ==
    LET q == NumberTenths(text)
        v == IF q.nan \/ q.n = 0 THEN 10 * PAGE_DEFAULT ELSE q.n
    IN  MinOf({MaxOf({v, 10 * PAGE_MIN}), 10 * PAGE_MAX})

\* Math.max(Number(req.query.offset) || 0, 0), in tenths
PageOffset(text) ==
    LET q == NumberTenths(text)
        v == IF q.nan THEN 0 ELSE q.n
    IN  MaxOf({v, 0})

\* Array.prototype.slice(start, end) on the entries 1..total, start and end
\* not negative: both are truncated to whole numbers and cut at the length
JsSlice(total, start, end) ==
    LET from == MinOf({start \div 10, total})
        to == MinOf({end \div 10, total})
    IN  [i \in 1..MaxOf({to - from, 0}) |-> from + i]

\* what PokeAPI answers to /pokemon?limit=..&offset=..: the entries from the
\* offset on, no more than the limit asked for
UpstreamPage(total, offset, limit) ==
    JsSlice(total, 10 * (offset \div 10), 10 * (offset \div 10) + 10 * (limit \div 10))

\* the page of the route
PageOf(route, total, offset, limit) ==
    IF route = "list" THEN UpstreamPage(total, offset, limit)
    ELSE JsSlice(total, offset, offset + limit)

PageLimitTexts == { <<>>, <<"x">>, <<"0">>, <<"-", "1">>, <<"1">>, <<"2">>, <<"2", ".", "5">>, <<"9", "9">> }
PageOffsetTexts == { <<>>, <<"x">>, <<"-", "1">>, <<"0", ".", "5">>, <<"1">>, <<"3">> }

InitPl ==
    /\ plRoute \in {"list", "type", "generation"}
    /\ plQuery \in [limit : PageLimitTexts, offset : PageOffsetTexts]
    /\ plTotal \in 0..MaxItems
    /\ plPc = "start"
    /\ plResp = <<>>

IdlePl ==
    /\ plRoute = "idle"
    /\ plQuery = [limit |-> <<>>, offset |-> <<>>]
    /\ plTotal = 0
    /\ plPc = "done"
    /\ plResp = <<>>

PlOthersUnchanged ==
    UNCHANGED <<encVars, cacheVars, pgVars, dictVars, jrVars, tdVars, decVars, svVars, rdVars, hqVars, hpVars>>

\* the handler up to `await pokeGet(...)` of the list, the type or the generation
PageStart ==
    /\ plPc = "start"
    /\ plPc' = "await"
    /\ UNCHANGED <<plRoute, plQuery, plTotal, plResp>>
    /\ PlOthersUnchanged

\* the data arrives; the entries of the page are fetched, each under its own
\* try/catch, and the response is sent
PageResponds ==
    /\ plPc = "await"
    /\ LET limit == PageLimit(plQuery.limit)
           offset == PageOffset(plQuery.offset)
           pokemon == PageOf(plRoute, plTotal, offset, limit)
       IN  plResp' = Append(plResp,
                [status |-> 200, total |-> plTotal, limit |-> limit, offset |-> offset,
                 count |-> Len(pokemon), hasNext |-> offset + limit < 10 * plTotal,
                 pokemon |-> pokemon])
    /\ plPc' = "done"
    /\ UNCHANGED <<plRoute, plQuery, plTotal>>
    /\ PlOthersUnchanged

\* the first pokeGet rejects: 404 for an unknown type or generation, else 502
PageFetchFails ==
    /\ plPc = "await"
    /\ \E kind \in FailKinds :
         plResp' = Append(plResp,
                [status |-> IF kind = "status404" /\ plRoute # "list" THEN 404 ELSE 502,
                 total |-> 0, limit |-> 0, offset |-> 0, count |-> 0, hasNext |-> FALSE,
                 pokemon |-> <<>>])
    /\ plPc' = "done"
    /\ UNCHANGED <<plRoute, plQuery, plTotal>>
    /\ PlOthersUnchanged

NextPl == PageStart \/ PageResponds \/ PageFetchFails

(***************************************************************************)
(* The dictionary over time: getHebrewNameMap as GET /detail/:idOrName     *)
(* calls it for a Hebrew query, the load started at startup, and the       *)
(* clock.  The handler resumes after the load it awaits has ended, and     *)
(* then searches the dictionary for the name.                              *)
(***************************************************************************)
HebrewQueries == { <<"he:esh">>, <<"he:none">> }

\* Object.entries(heMap).find(([_, heName]) => heName === q): the API names
\* whose Hebrew name is q
KeysWithValue(obj, q) ==
    {k \in DOMAIN obj.own : obj.own[k] = q}
    \cup (IF Len(q) >= 2 /\ q[1] = "he:" /\ IsRowKey(Tail(q), obj.rows)
             /\ Tail(q) \notin DOMAIN obj.own
          THEN {Tail(q)} ELSE {})

InitHq ==
    /\ hqPc = "start"
    /\ hqQuery \in HebrewQueries
    /\ hqLoad = 0
    /\ hqName = <<>>
    /\ hqPokeGets = 0
    /\ hqResp = <<>>

IdleHq ==
    /\ hqPc = "idle"
    /\ hqQuery = <<>>
    /\ hqLoad = 0
    /\ hqName = <<>>
    /\ hqPokeGets = 0
    /\ hqResp = <<>>

HqOthersUnchanged ==
    UNCHANGED <<encVars, pgVars, jrVars, tdVars, decVars, svVars, rdVars, plVars, hpVars>>

\* a dictionary that answers every name
ResolveAlways(heMap, q) ==
    /\ hqName' = q
    /\ hqPokeGets' = 2
    /\ hqPc' = "pokeapi"
    /\ UNCHANGED hqResp

\* the rest of the Hebrew branch: the entry found and the two pokeGet calls,
\* or the 404
Resolve(heMap, q) ==
    IF KeysWithValue(heMap, q) # {}
    THEN /\ hqName' \in KeysWithValue(heMap, q)
         /\ hqPokeGets' = 2
         /\ hqPc' = "pokeapi"
         /\ UNCHANGED hqResp
    ELSE /\ hqResp' = Append(hqResp, [status |-> 404, by |-> "hebrew"])
         /\ hqPc' = "done"
         /\ UNCHANGED <<hqName, hqPokeGets>>

\* time passes; it is counted from the moment the dictionary is stored
DictTick ==
    /\ hqPc # "idle"
    /\ MapHas(cache, DictKey)
    /\ nTicks < MaxTicks
    /\ \E d \in TickSteps("pokemon") : now' = now + d
    /\ nTicks' = nTicks + 1
    /\ UNCHANGED <<cacheMod, cache, slot, pending, lastCall, lastSet, nCalls>>
    /\ UNCHANGED dictVars
    /\ UNCHANGED <<hqPc, hqQuery, hqLoad, hqName, hqPokeGets, hqResp>>
    /\ HqOthersUnchanged

\* the handler to `await getHebrewNameMap()`: with the flag set the map is
\* returned as it is; else loadHebrewNameDictionary runs to its cache hit or
\* to its request
HebrewQueryStart ==
    /\ hqPc = "start"
    /\ lookup = NoLookup
    /\ IF heNamesDictLoaded
       THEN /\ Resolve(POKEMON_NAME_HE, hqQuery)
            /\ UNCHANGED <<hqLoad, POKEMON_NAME_HE, heNamesDictLoaded, loads, nLoads>>
       ELSE IF DictCacheHit
       THEN /\ POKEMON_NAME_HE' = cache[DictKey].data
            /\ heNamesDictLoaded' = TRUE
            /\ Resolve(cache[DictKey].data, hqQuery)
            /\ UNCHANGED <<hqLoad, loads, nLoads>>
       ELSE /\ nLoads < MaxLoads
            /\ nLoads' = nLoads + 1
            /\ loads' = loads \cup {nLoads + 1}
            /\ hqLoad' = nLoads + 1
            /\ hqPc' = "waiting"
            /\ UNCHANGED <<hqName, hqPokeGets, hqResp, POKEMON_NAME_HE, heNamesDictLoaded>>
    /\ UNCHANGED <<hqQuery, lastLoad, lastGood, lookup, cache>>
    /\ DictCacheUnchanged
    /\ HqOthersUnchanged

\* the awaited load has ended: `return POKEMON_NAME_HE` and the search
HebrewQueryResume ==
    /\ hqPc = "waiting"
    /\ hqLoad \notin loads
    /\ Resolve(POKEMON_NAME_HE, hqQuery)
    /\ hqLoad' = 0
    /\ UNCHANGED hqQuery
    /\ UNCHANGED <<dictVars, cacheVars>>
    /\ HqOthersUnchanged

NextHq ==
    \/ LoadResponse \/ LoadError \/ DictTick
    \/ HebrewQueryStart \/ HebrewQueryResume

(***************************************************************************)
(* fetchHebrewPokedex(25): the cache is read; on a miss the tag page is    *)
(* requested, then the post it links to, and the outcome is stored; the    *)
(* catch returns null.  A post is what the extraction finds in it: the     *)
(* number of description rows and of trivia items.                         *)
(***************************************************************************)
PokedexKey == "he_pokedex_0025"
NoPokedex == [id |-> 0, how |-> "none", ret |-> "NULL", descriptions |-> 0,
              trivia |-> 0, sent |-> 0]
EntryCounts == 0..1

\* result.descriptions.length > 0 || result.trivia.length > 0 ? result : null
finalResult(descriptions, trivia) ==
    IF descriptions > 0 \/ trivia > 0 THEN "result" ELSE "NULL"

InitHp ==
    /\ hpRun = {}
    /\ hpLast = NoPokedex
    /\ nHp = 0
    /\ hpSent = 0

IdleHp ==
    /\ hpRun = {}
    /\ hpLast = NoPokedex
    /\ nHp = 0
    /\ hpSent = 0

HpCacheUnchanged == UNCHANGED <<cacheMod, slot, pending, lastCall, lastSet, nCalls>>

HpOthersUnchanged ==
    UNCHANGED <<encVars, pgVars, dictVars, jrVars, tdVars, decVars, svVars, rdVars, plVars, hqVars>>

\* time passes
PokedexTick ==
    /\ nTicks < MaxTicks
    /\ \E d \in TickSteps("pokemon") : now' = now + d
    /\ nTicks' = nTicks + 1
    /\ UNCHANGED <<cache, hpRun, hpLast, nHp, hpSent>>
    /\ HpCacheUnchanged
    /\ HpOthersUnchanged

\* the call, to its return on a hit or to the await of the tag page
PokedexCall ==
    /\ nHp < MaxCalls
    /\ nHp' = nHp + 1
    /\ LET hit == cached("pokemon", cache, PokedexKey, now)
       IN  IF IsHit("pokemon", hit)
           THEN /\ hpLast' = [id |-> nHp + 1, how |-> "hit", ret |-> hit,
                              descriptions |-> 0, trivia |-> 0, sent |-> 0]
                /\ UNCHANGED <<hpRun, hpSent>>
           ELSE /\ hpRun' = hpRun \cup {[id |-> nHp + 1, step |-> "tag", sent |-> 1]}
                /\ hpSent' = hpSent + 1
                /\ UNCHANGED hpLast
    /\ UNCHANGED <<cache, now, nTicks>>
    /\ HpCacheUnchanged
    /\ HpOthersUnchanged

\* the tag page arrives: without a link to the post null is stored, with one
\* the post is requested
TagArrives ==
    /\ \E call \in hpRun, postUrl \in BOOLEAN :
        /\ call.step = "tag"
        /\ IF ~postUrl
           THEN /\ cache' = setCache("pokemon", cache, PokedexKey, "NULL", now)
                /\ hpLast' = [id |-> call.id, how |-> "nolink", ret |-> "NULL",
                              descriptions |-> 0, trivia |-> 0, sent |-> call.sent]
                /\ hpRun' = hpRun \ {call}
                /\ UNCHANGED hpSent
           ELSE /\ hpRun' = (hpRun \ {call})
                              \cup {[id |-> call.id, step |-> "post", sent |-> call.sent + 1]}
                /\ hpSent' = hpSent + 1
                /\ UNCHANGED <<cache, hpLast>>
    /\ UNCHANGED <<nHp, now, nTicks>>
    /\ HpCacheUnchanged
    /\ HpOthersUnchanged

\* the post arrives: the extraction, and setCache(cacheKey, finalResult)
PostArrives ==
    /\ \E call \in hpRun, descriptions \in EntryCounts, trivia \in EntryCounts :
        /\ call.step = "post"
        /\ cache' = setCache("pokemon", cache, PokedexKey,
                             finalResult(descriptions, trivia), now)
        /\ hpLast' = [id |-> call.id, how |-> "post",
                      ret |-> finalResult(descriptions, trivia),
                      descriptions |-> descriptions, trivia |-> trivia,
                      sent |-> call.sent]
        /\ hpRun' = hpRun \ {call}
    /\ UNCHANGED <<nHp, hpSent, now, nTicks>>
    /\ HpCacheUnchanged
    /\ HpOthersUnchanged

\* either request fails: catch (err) logs it and returns null
PokedexFails ==
    /\ \E call \in hpRun :
        /\ hpLast' = [id |-> call.id, how |-> "failed", ret |-> "NULL",
                      descriptions |-> 0, trivia |-> 0, sent |-> call.sent]
        /\ hpRun' = hpRun \ {call}
    /\ UNCHANGED <<cache, nHp, hpSent, now, nTicks>>
    /\ HpCacheUnchanged
    /\ HpOthersUnchanged

NextHp == PokedexTick \/ PokedexCall \/ TagArrives \/ PostArrives \/ PokedexFails

(***************************************************************************)
(* Specifications: one subsystem runs, the others stay idle.               *)
(***************************************************************************)
StartEnc == InitEnc /\ IdleCache /\ IdlePg /\ IdleDict /\ IdleJr /\ IdleTd /\ IdleDec /\ IdleSv /\ IdleRd /\ IdlePl /\ IdleHq /\ IdleHp
SpecEnc == StartEnc /\ [][NextEnc]_vars

StartCache == IdleEnc /\ InitCache /\ IdlePg /\ IdleDict /\ IdleJr /\ IdleTd /\ IdleDec /\ IdleSv /\ IdleRd /\ IdlePl /\ IdleHq /\ IdleHp
SpecCache == StartCache /\ [][NextCache]_vars

StartPg == IdleEnc /\ IdleCache /\ InitPg /\ IdleDict /\ IdleJr /\ IdleTd /\ IdleDec /\ IdleSv /\ IdleRd /\ IdlePl /\ IdleHq /\ IdleHp
SpecPg == StartPg /\ [][NextPg]_vars

StartDict == IdleEnc /\ DictCache /\ IdlePg /\ InitDict /\ IdleJr /\ IdleTd /\ IdleDec /\ IdleSv /\ IdleRd /\ IdlePl /\ IdleHq /\ IdleHp
SpecDict == StartDict /\ [][NextDict]_vars

StartJr == IdleEnc /\ IdleCache /\ IdlePg /\ IdleDict /\ InitJr /\ IdleTd /\ IdleDec /\ IdleSv /\ IdleRd /\ IdlePl /\ IdleHq /\ IdleHp
SpecJr == StartJr /\ [][NextJr]_vars

StartTd == IdleEnc /\ IdleCache /\ IdlePg /\ IdleDict /\ IdleJr /\ InitTd /\ IdleDec /\ IdleSv /\ IdleRd /\ IdlePl /\ IdleHq /\ IdleHp
SpecTd == StartTd /\ [][NextTd]_vars

StartDec == IdleEnc /\ IdleCache /\ IdlePg /\ IdleDict /\ IdleJr /\ IdleTd /\ InitDec /\ IdleSv /\ IdleRd /\ IdlePl /\ IdleHq /\ IdleHp
SpecDec == StartDec /\ [][NextDec]_vars

StartSv == IdleEnc /\ IdleCache /\ IdlePg /\ IdleDict /\ IdleJr /\ IdleTd /\ IdleDec /\ InitSv /\ IdleRd /\ IdlePl /\ IdleHq /\ IdleHp
SpecSv == StartSv /\ [][NextSv]_vars

StartRd == IdleEnc /\ IdleCache /\ IdlePg /\ IdleDict /\ IdleJr /\ IdleTd /\ IdleDec /\ IdleSv /\ InitRd /\ IdlePl /\ IdleHq /\ IdleHp
SpecRd == StartRd /\ [][NextRd]_vars

StartPl == IdleEnc /\ IdleCache /\ IdlePg /\ IdleDict /\ IdleJr /\ IdleTd /\ IdleDec /\ IdleSv /\ IdleRd /\ InitPl /\ IdleHq /\ IdleHp
SpecPl == StartPl /\ [][NextPl]_vars

StartHq == IdleEnc /\ DictCache /\ IdlePg /\ InitDict /\ IdleJr /\ IdleTd /\ IdleDec /\ IdleSv /\ IdleRd /\ IdlePl /\ InitHq /\ IdleHp
SpecHq == StartHq /\ [][NextHq]_vars

StartHp == IdleEnc /\ DictCache /\ IdlePg /\ IdleDict /\ IdleJr /\ IdleTd /\ IdleDec /\ IdleSv /\ IdleRd /\ IdlePl /\ IdleHq /\ InitHp
SpecHp == StartHp /\ [][NextHp]_vars

(***************************************************************************)
(* C1: round trip.  For every string made only of Hebrew letters           *)
(* U+05D0..U+05EA, ASCII digits and ASCII letters, percent-decoding        *)
(* encodeWin1255(s) and decoding the bytes with the windows-1255 table     *)
(* gives back exactly s.                                                   *)
(***************************************************************************)
RoundTripChars == HebrewLetters \cup Digits \cup AsciiLetters

InRoundTripAlphabet(s) == \A i \in 1..Len(s) : s[i] \in RoundTripChars

C1_RoundTrip ==
    InRoundTripAlphabet(encIn) =>
        /\ encPc # "thrown"
        /\ encPc = "decoded" => encBack = encIn

C1_Witness ==
    /\ encPc = "decoded"
    /\ Len(encIn) = 2
    /\ encIn[1] \in HebrewLetters
    /\ encIn[2] \in AsciiLetters
    /\ encBack = encIn

(***************************************************************************)
(* Cache claims.  lastCall is the latest read of the cache (by a fetch     *)
(* call), lastSet[k] the latest store under k; the store came before the   *)
(* read when fewer calls had been made at the store than the read's index. *)
(***************************************************************************)
SetBeforeRead == lastSet[lastCall.key].set /\ lastSet[lastCall.key].calls < lastCall.idx
ElapsedAtRead == lastCall.at - lastSet[lastCall.key].at

(***************************************************************************)
(* C2: in the jokes, Pokemon and soccer caches, a get(k) made after        *)
(* set(k, v), with no later set(k, .) and less than the cache's TTL        *)
(* elapsed since that set, returns v, whatever happened to other keys in   *)
(* between.                                                                *)
(***************************************************************************)
C2_FreshReadReturnsValue ==
    (/\ cacheMod \in MapMods
     /\ lastCall.idx > 0
     /\ SetBeforeRead
     /\ ElapsedAtRead < CACHE_TTL(cacheMod))
    => lastCall.got = lastSet[lastCall.key].v

C2_Witness ==
    /\ cacheMod \in MapMods
    /\ lastCall.idx > 0
    /\ SetBeforeRead
    /\ ElapsedAtRead > 0
    /\ ElapsedAtRead < CACHE_TTL(cacheMod)
    /\ lastCall.got = lastSet[lastCall.key].v
    /\ \E k2 \in KeysOf(cacheMod) \ {lastCall.key} :
        /\ lastSet[k2].set
        /\ lastSet[k2].at > lastSet[lastCall.key].at
        /\ lastSet[k2].calls < lastCall.idx

(***************************************************************************)
(* C3: a get(k) made when the TTL or more has elapsed since the latest     *)
(* set(k, .) returns absent (null; CACHE_MISS in the Pokemon cache), and   *)
(* so does a get of a key that was never set.                              *)
(***************************************************************************)
C3_StaleOrUnsetReadAbsent ==
    (/\ cacheMod \in MapMods
     /\ lastCall.idx > 0
     /\ \/ ~lastSet[lastCall.key].set
        \/ SetBeforeRead /\ ElapsedAtRead >= CACHE_TTL(cacheMod))
    => /\ lastCall.got = Absent(cacheMod)
       /\ ~lastCall.served

C3_Witness ==
    /\ cacheMod \in {"jokes", "pokemon"}
    /\ lastCall.idx > 0
    /\ SetBeforeRead
    /\ ElapsedAtRead = CACHE_TTL(cacheMod)
    /\ lastSet[lastCall.key].v = "A"
    /\ lastCall.got = Absent(cacheMod)

(***************************************************************************)
(* C4: in every cache, the standalone server's single slot included, the   *)
(* TTL runs from the moment the value is stored: a payload stored at time  *)
(* t is served to every read before t + TTL.                               *)
(***************************************************************************)
C4_TtlRunsFromInsertion ==
    (/\ cacheMod \in CacheMods
     /\ lastCall.idx > 0
     /\ SetBeforeRead
     /\ ElapsedAtRead < CACHE_TTL(cacheMod))
    => lastCall.got = lastSet[lastCall.key].v

(***************************************************************************)
(* Extractor claims.                                                       *)
(***************************************************************************)
ListingDone == pgPc = "done-listing"
JokeDone == pgPc = "done-joke"

OutIds(jokes) == [j \in 1..Len(jokes) |-> jokes[j].id]

\* a sequence without its repeated elements, first occurrences kept
RECURSIVE FirstOccurrences(_)
FirstOccurrences(q) ==
    IF q = <<>> THEN <<>>
    ELSE LET init == FirstOccurrences(SubSeq(q, 1, Len(q) - 1))
             last == q[Len(q)]
         IN  IF \E i \in 1..Len(init) : init[i] = last THEN init ELSE Append(init, last)

\* the anchors the claim counts: href contains joke.php?id=<digits>
HasJokeId(a) == \E i \in 1..Len(a.href) : a.href[i].kind = "joke" /\ a.href[i].digits # <<>>
JokeIdOf(a) ==
    DigitsToNumber(a.href[MinOf({i \in 1..Len(a.href) :
        a.href[i].kind = "joke" /\ a.href[i].digits # <<>>})].digits)

ClaimedIds(anchors) ==
    FirstOccurrences([i \in 1..Len(SelectSeq(anchors, HasJokeId)) |->
                         JokeIdOf(SelectSeq(anchors, HasJokeId)[i])])

(***************************************************************************)
(* C5 as claimed: parseListingPage returns one entry per distinct numeric  *)
(* id among the anchors whose href contains joke.php?id=<digits>, in the   *)
(* order of each id's first occurrence in the document (anchors for ids    *)
(* 12, 7, 12 give [12, 7]).                                                *)
(***************************************************************************)
C5_OneEntryPerLinkedId ==
    ListingDone => OutIds(pgOut.jokes) = ClaimedIds(pgDoc)

\* the anchors the code keeps: selected, with an id=<digits> and with text
Titled(a) == SelectorMatches(a.href) /\ IdMatch(a.href).matched /\ Trim(a.text) # <<>>
TitledAt(anchors) == {i \in 1..Len(anchors) : Titled(anchors[i])}
FirstTitled(anchors, id) ==
    MinOf({i \in TitledAt(anchors) : IdMatch(anchors[i].href).id = id})

(***************************************************************************)
(* C5 as amended: parseListingPage returns one entry per distinct id among *)
(* the selected anchors that have a non-empty trimmed text, the id being   *)
(* the number after the first id= followed by digits in the href; entries  *)
(* are in the order of the first such anchor of each id and carry that     *)
(* anchor's trimmed text.  Anchors without text are skipped.               *)
(***************************************************************************)
C5_OneEntryPerTitledId ==
    ListingDone =>
        LET out == pgOut.jokes
        IN  /\ \A j, k \in 1..Len(out) : j # k => out[j].id # out[k].id
            /\ {out[j].id : j \in 1..Len(out)}
                 = {IdMatch(pgDoc[i].href).id : i \in TitledAt(pgDoc)}
            /\ \A j, k \in 1..Len(out) :
                 j < k => FirstTitled(pgDoc, out[j].id) < FirstTitled(pgDoc, out[k].id)
            /\ \A j \in 1..Len(out) :
                 /\ out[j].title = Trim(pgDoc[FirstTitled(pgDoc, out[j].id)].text)
                 /\ out[j].url = JokeUrl(out[j].id)

C5_Witness ==
    /\ ListingDone
    /\ Len(pgDoc) = 3
    /\ pgDoc[1] = [href |-> JokeHref(<<1, 2>>), text |-> <<>>]
    /\ pgDoc[2] = [href |-> JokeHref(<<7>>), text |-> <<"w">>]
    /\ pgDoc[3] = [href |-> JokeHref(<<1, 2>>), text |-> <<"w">>]
    /\ OutIds(pgOut.jokes) = <<7, 12>>

\* the <p> texts that hold none of the boilerplate phrases
IsBoilerplate(para) == \E i \in 1..Len(para) : para[i] \in {"SHARE", "S"}
CleanParagraphs(doc) == SelectSeq(doc.paras, LAMBDA para : ~IsBoilerplate(para))

HasTitleForm(t) ==
    \E i, c, d, e \in 1..Len(t) :
        /\ i < c /\ c + 1 < d /\ d < e
        /\ t[i] = "L" /\ t[c] = ":" /\ t[d] = "-" /\ t[e] = "S"
        /\ \A x \in (i + 1)..(c - 1) : IsWs(t[x])
        /\ \A x \in (d + 1)..(e - 1) : IsWs(t[x])

\* the heading has the form ... JOKES category:
HasCategoryForm(h) ==
    \E i, k \in 1..Len(h) :
        /\ h[i] = "J" /\ i + 1 <= Len(h) /\ IsWs(h[i + 1])
        /\ k >= i + 3 /\ h[k] = ":"

MarkerFree(doc) ==
    /\ ~HasTitleForm(doc.title)
    /\ \A i \in 1..Len(doc.body) : doc.body[i] # "OSP("
    /\ doc.meta = <<>>
    /\ ~HasCategoryForm(doc.h2)

(***************************************************************************)
(* C7: for a document with none of the expected markers (no title of the   *)
(* form LABEL : title - SITE, no openSharePopup call, no meta description, *)
(* no matching h2) parseJokePage throws nothing and returns a record whose *)
(* title, joke and category are null, with id and url set.                 *)
(***************************************************************************)
C7_MarkerFreeAllNull ==
    JokeDone /\ MarkerFree(pgDoc) =>
        /\ ~pgOut.threw
        /\ pgOut.title = Null
        /\ pgOut.joke = Null
        /\ pgOut.category = Null
        /\ pgOut.id = pgId
        /\ pgOut.url = JokeUrl(pgId)

C7_Witness ==
    /\ JokeDone
    /\ MarkerFree(pgDoc)
    /\ pgDoc.title = <<"w", " ", "-", " ", "S">>
    /\ pgDoc.body = <<"w", " ", "w">>
    /\ CleanParagraphs(pgDoc) # <<>>
    /\ pgOut.joke = Null

(***************************************************************************)
(* Normalizer and dictionary claims.                                       *)
(***************************************************************************)
StaticLookups == {"he", "heArray", "ability", "stat"}
ClaimedLookups == StaticLookups \cup {"getHebrewName"}

\* the key is in the dictionary and in the static table with another value
InBothDifferently(key, table) ==
    /\ HasOwn(POKEMON_NAME_HE, key)
    /\ HasOwn(table, key)
    /\ OwnValue(POKEMON_NAME_HE, key) # OwnValue(table, key)

InNoTable(key) ==
    /\ ~HasOwn(POKEMON_NAME_HE, key)
    /\ \A name \in StaticNames : ~HasOwn(StaticTable(name), key)

(***************************************************************************)
(* C9 as claimed: every normalizer lookup (he, heArray, getHebrewName, the *)
(* ability and stat lookups) of a key that has no entry in any table       *)
(* returns null for that key and never throws.  (Read in the claim's       *)
(* favour: the key is a non-empty string and no inherited property, and    *)
(* the PokeAPI response has no Hebrew name.)                               *)
(***************************************************************************)
C9_MissingKeyNull ==
    /\ lookup.fn \in ClaimedLookups
    /\ InNoTable(lookup.key)
    /\ lookup.key \notin ProtoKeys
    /\ ~KeyFalsy(lookup.key)
    /\ Falsy(getName(lookup.names, "he"))
    => lookup.got = Null /\ ~lookup.threw

(***************************************************************************)
(* C9 as amended: for a key that is a property, own or inherited, of no    *)
(* table (and with no Hebrew name in the PokeAPI response), he,            *)
(* getHebrewName and the ability and stat lookups return null, heArray     *)
(* returns the key itself in that position, and none of them throws.       *)
(***************************************************************************)
C9_MissingKeyNullOrKey ==
    /\ lookup.fn \in ClaimedLookups
    /\ InNoTable(lookup.key)
    /\ lookup.key \notin ProtoKeys
    /\ Falsy(getName(lookup.names, "he"))
    => /\ ~lookup.threw
       /\ lookup.fn # "heArray" => lookup.got = Null
       /\ lookup.fn = "heArray" =>
            lookup.got = (IF lookup.key = JsNull THEN Null ELSE Str(lookup.key))

C9_Witness ==
    /\ lookup.fn = "heArray"
    /\ lookup.map = "TYPE_HE"
    /\ lookup.key = <<"shadow">>
    /\ InNoTable(<<"shadow">>)
    /\ lookup.got = Str(<<"shadow">>)

DictionaryEmptyOrComplete ==
    \/ POKEMON_NAME_HE = EmptyObj /\ ~heNamesDictLoaded
    \/ /\ heNamesDictLoaded
       /\ POKEMON_NAME_HE = lastGood
       /\ KeyCount(POKEMON_NAME_HE) > DICT_MIN

FailedLoadEnds ==
    /\ Cardinality(loads') < Cardinality(loads)
    /\ lastLoad'.outcome \in {"error", "few"}

(***************************************************************************)
(* C10: in every reachable state, under any interleaving of loads,         *)
(* POKEMON_NAME_HE is either the empty table with _heNamesDictLoaded       *)
(* false, or the complete table of one single successful load (more than   *)
(* 100 entries) with _heNamesDictLoaded true; a load that fails (request   *)
(* error, or 100 or fewer names parsed) leaves both variables unchanged.   *)
(***************************************************************************)
C10_EmptyOrOneLoad ==
    /\ []DictionaryEmptyOrComplete
    /\ [][FailedLoadEnds => UNCHANGED <<POKEMON_NAME_HE, heNamesDictLoaded>>]_vars

C10_Witness ==
    /\ heNamesDictLoaded
    /\ KeyCount(POKEMON_NAME_HE) = DICT_MIN + 1
    /\ lastLoad = [outcome |-> "few", count |-> DICT_MIN]
    /\ loads # {}

(***************************************************************************)
(* C11 as claimed: over any interleaving of the startup load and the       *)
(* request-triggered loads, the dictionary is requested from the external  *)
(* source and POKEMON_NAME_HE is populated at most once per process        *)
(* lifetime: after the startup request no further request is issued, and a *)
(* populated table is never assigned again.                                *)
(***************************************************************************)
C11_LoadedAtMostOnce ==
    [][/\ loads' \subseteq loads
       /\ heNamesDictLoaded => POKEMON_NAME_HE' = POKEMON_NAME_HE]_vars

(***************************************************************************)
(* Route claims.                                                           *)
(***************************************************************************)
\* the entries of the listing page, by the listing's own rule
DistinctLinks == parseListingPage(jrPage.anchors)
KeptLinks == Slice(DistinctLinks, ClampLimit(jrReq.limit))

LeagueSucceeded(i) ==
    /\ tdAnswer[i].kind = "ok"
    /\ \A k \in 1..Len(tdAnswer[i].events) : tdAnswer[i].events[k] # "broken"

\* the matches of league i's scoreboard, in the scoreboard's order
MatchesOf(i) ==
    LET events == tdAnswer[i].events
        at == SelectSeq([k \in 1..Len(events) |-> k], LAMBDA k : events[k] = "match")
    IN  [j \in 1..Len(at) |-> [league |-> LEAGUES[i], event |-> at[j]]]

ExpectedMatches ==
    Flatten([i \in LeagueIds |-> IF LeagueSucceeded(i) THEN MatchesOf(i) ELSE <<>>])

(***************************************************************************)
(* C13: fetchToday never rejects because of league fetch failures: under   *)
(* any subset of failing leagues (error status, timeout, malformed event)  *)
(* it resolves with a payload whose matches are exactly the parsed matches *)
(* of the leagues that succeeded, in LEAGUES order, and whose count equals *)
(* matches.length.                                                         *)
(***************************************************************************)
C13_TodaySurvivesLeagueFailures ==
    /\ tdResult.state # "rejected"
    /\ tdPc = "done" /\ tdMod # "idle" =>
         /\ tdResult.state = "resolved"
         /\ tdResult.value.matches = ExpectedMatches
         /\ tdResult.value.count = Len(tdResult.value.matches)
         /\ tdStored = tdResult.value

C13_Witness ==
    /\ tdPc = "done"
    /\ tdAnswer[1].kind = "timeout"
    /\ tdAnswer[2] = [kind |-> "ok", events |-> <<"match", "broken">>]
    /\ tdAnswer[3] = [kind |-> "ok", events |-> <<"empty", "match">>]
    /\ tdResult.value.matches = <<[league |-> "ger.1", event |-> 2]>>
    /\ tdResult.value.count = 1

\* a miss adds the caller's own request; a request that ends is answered or fails
OwnRequestStep ==
    cacheMod \in MapMods =>
        /\ (nCalls' = nCalls + 1 /\ ~lastCall'.served) =>
             /\ [id |-> nCalls', key |-> lastCall'.key, t0 |-> 0] \in pending' \ pending
             /\ Cardinality(pending') = Cardinality(pending) + 1
        /\ \A req \in pending \ pending' :
             \/ /\ lastSet'[req.key].by = req.id
                /\ lastSet'[req.key].writes = lastSet[req.key].writes + 1
                /\ cache'[req.key].data = lastSet'[req.key].v
             \/ /\ lastSet' = lastSet
                /\ cache' = cache

(***************************************************************************)
(* C14: in-flight fetches are not deduplicated.  A call of fetchPage or    *)
(* pokeGet that misses the cache sends a request of its own, whatever is   *)
(* already in flight for the key, and every request that is answered       *)
(* stores and returns its own answer; one that fails leaves the cache      *)
(* alone.                                                                  *)
(***************************************************************************)
C14_EachMissSendsItsOwnRequest == [][OwnRequestStep]_vars

\* two calls for one key, the second missing before any time passed, and
\* both answered: the two requests were in flight together
C14_Witness ==
    /\ cacheMod = "pokemon"
    /\ nTicks = 0
    /\ nCalls = 2
    /\ lastCall.idx = 2
    /\ lastCall.key = "pokemon/25"
    /\ ~lastCall.served
    /\ pending = {}
    /\ lastSet["pokemon/25"].writes = 2
    /\ lastSet["pokemon/25"].by = 1

\* the entry setCache builds for the store recorded in ls
EntryOf(mod, key, ls) ==
    IF mod = "soccer" THEN [data |-> ls.v, ts |-> ls.at, ttl |-> TtlArg(key)]
    ELSE [data |-> ls.v, ts |-> ls.at]

\* a store replaces the entry of its key and nothing else
LastWriteStep ==
    cacheMod \in MapMods =>
        \A k \in AllKeys :
            IF lastSet'[k] # lastSet[k]
            THEN /\ MapHas(cache', k)
                 /\ cache'[k] = EntryOf(cacheMod, k, lastSet'[k])
                 /\ lastSet'[k].at = now
            ELSE /\ MapHas(cache', k) = MapHas(cache, k)
                 /\ MapHas(cache, k) => cache'[k] = cache[k]

(***************************************************************************)
(* C15: cache writes are last-write-wins.  Each completed fetch leaves     *)
(* under its key its own data stamped with the time of the completion,     *)
(* whatever the key held, and no other key of the map changes.             *)
(***************************************************************************)
C15_LastWriteWins == [][LastWriteStep]_vars

\* the second of two completions for one key came later and overwrote
C15_Witness ==
    /\ cacheMod = "jokes"
    /\ lastSet["new.php"].writes = 2
    /\ lastSet["new.php"].by = 1
    /\ cache["new.php"] = [data |-> "B", ts |-> ClockStart + 1]
    /\ MapHas(cache, "joke.php?id=1")
    /\ cache["joke.php?id=1"].ts = ClockStart

\* the keys of the map before the step are keys after it
KeysKeptStep ==
    cacheMod \in MapMods =>
        \A k \in AllKeys : MapHas(cache, k) => MapHas(cache', k)

(***************************************************************************)
(* C16: no operation removes a key from a cache map: a key that is in the  *)
(* map stays in it through every call, completion, failure and lapse of    *)
(* time, also once its entry has expired.                                  *)
(***************************************************************************)
C16_KeysNeverRemoved == [][KeysKeptStep]_vars

\* an expired entry: the call for its key missed, another key was stored
\* since, and the entry is still in the map
C16_Witness ==
    /\ cacheMod \in MapMods
    /\ \E k \in KeysOf(cacheMod) :
        /\ MapHas(cache, k)
        /\ now - cache[k].ts >= CACHE_TTL(cacheMod)
        /\ lastCall.key = k
        /\ lastCall.at = now
        /\ ~lastCall.served
        /\ \E k2 \in KeysOf(cacheMod) \ {k} : MapHas(cache, k2) /\ cache[k2].ts > cache[k].ts

\* what the encoder is to write for one code point: the two-digit uppercase
\* byte of a Hebrew letter, the character, "%20", or its percent-encoding
PieceOf(cp) ==
    IF cp \in HebrewLetters
    THEN LET byte == WIN_HEB_BASE + (cp - HEB_FIRST)
         IN  <<CH_PERCENT, HexDigit(byte \div 16), HexDigit(byte % 16)>>
    ELSE IF cp \in AsciiLetters \cup Digits \cup UnreservedMarks THEN <<cp>>
    ELSE IF cp = CH_SPACE THEN <<CH_PERCENT, 50, 48>>
    ELSE encodeURIComponent(cp).out

PiecesOf(str) == Flatten([i \in 1..Len(str) |-> PieceOf(str[i])])

HasLoneSurrogate(str) == \E i \in 1..Len(str) : IsLoneSurrogate(str[i])

IsScalarValue(c) == c \in 0..1114111 /\ ~IsLoneSurrogate(c)

(***************************************************************************)
(* C18: for every byte sequence received as a response body, the           *)
(* windows-1255 decoding step of fetchPage returns a string and never      *)
(* raises; bytes 0xE0..0xFA become the Hebrew letters U+05D0..U+05EA,      *)
(* bytes below 0x80 the same ASCII character, and a byte with no mapping   *)
(* the substitution character U+FFFD.                                      *)
(***************************************************************************)
C18_DecodeNeverRaises ==
    /\ decPc # "thrown"
    /\ decPc = "decoded" =>
         /\ Len(decOut) = Len(decIn)
         /\ \A i \in 1..Len(decIn) :
              LET b == decIn[i]
                  c == decOut[i]
              IN  /\ IsScalarValue(c)
                  /\ b \in 224..250 => c = 1488 + (b - 224)
                  /\ b < 128 => c = b
                  /\ b \in Win1255Unmapped => c = REPLACEMENT

\* tav followed by a byte the table does not map
C18_Witness ==
    /\ decPc = "decoded"
    /\ decIn = <<250, 251>>
    /\ decOut = <<HEB_LAST, REPLACEMENT>>

\* GET /jokes/:id: the id of the request is a number >= 1
ValidJokeId == ~Number(jrReq.id).nan /\ Number(jrReq.id).n >= 1

(***************************************************************************)
(* C19: every GET /jokes/:id request ends with exactly one response and    *)
(* never a thrown error: 400, with no fetch issued, when the id is not a   *)
(* number >= 1; 404 when the page is fetched but no joke text is           *)
(* extracted, or when the upstream answers 404; 502 for any other fetch    *)
(* failure, a timeout included; 200 with the joke record otherwise.        *)
(***************************************************************************)
C19_OneResponsePerJokeRequest ==
    jrRoute = "id" =>
        /\ jrPc \in {"start", "page", "done"}
        /\ Len(jrResp) = (IF jrPc = "done" THEN 1 ELSE 0)
        /\ jrPc = "done" =>
             LET r == jrResp[1]
             IN  IF ~ValidJokeId THEN r.status = 400 /\ jrFetches = 0
                 ELSE /\ jrFetches = 1
                      /\ IF jrFail = {"status404"} THEN r.status = 404
                         ELSE IF jrFail # {} THEN r.status = 502
                         ELSE LET joke == parseJokePage(jrPage.doc, Number(jrReq.id).n)
                              IN  IF joke.joke = Null \/ joke.joke = Str(<<>>)
                                  THEN r.status = 404
                                  ELSE r.status = 200 /\ r.body = joke

\* a timeout answered with 502
C19_Witness ==
    /\ jrRoute = "id"
    /\ jrPc = "done"
    /\ jrReq.id = <<"4", "0", "3", "3">>
    /\ jrFail = {"timeout"}
    /\ jrFetches = 1
    /\ Len(jrResp) = 1
    /\ jrResp[1].status = 502

\* the request lacks the configured secret
SecretConfigured == RAPID_PROXY_SECRET(svEnv) # "NULL"
Unauthorized == SecretConfigured /\ svReq.header # RAPID_PROXY_SECRET(svEnv)

(***************************************************************************)
(* C20: when RAPID_PROXY_SECRET is configured, every request whose         *)
(* X-RapidAPI-Proxy-Secret header is missing or different gets 403         *)
(* Forbidden and reaches no route handler and no other content, for every  *)
(* path: API routes, /health and the client files.                         *)
(***************************************************************************)
C20_OnlyProxyRequestsServed ==
    svApp # "idle" /\ Unauthorized =>
        /\ svSeen = {}
        /\ svPc = "done" => svResp = <<[status |-> 403, by |-> "secret"]>>

(***************************************************************************)
(* C21: a standings payload stored by fetchStandings is cached for 5       *)
(* minutes: every fetchStandings call for the same league made less than   *)
(* 300 000 ms after the payload was stored returns it from the cache       *)
(* without a new request.                                                  *)
(***************************************************************************)
C21_StandingsCachedFiveMinutes ==
    (/\ cacheMod = "soccer"
     /\ lastCall.key = "standings_eng.1"
     /\ SetBeforeRead
     /\ ElapsedAtRead < STANDINGS_TTL)
    => /\ lastCall.served
       /\ lastCall.got = lastSet[lastCall.key].v
       /\ \A req \in pending : req.id # lastCall.idx

\* the jokes of the /random response
RandomAnswered == rdPc = "done" /\ Len(rdResp) = 1
SentJokes == rdResp[1].body.jokes

\* distinct ids, texts longer than 3 characters, count = jokes.length
SentJokesWellFormed ==
    /\ \A i, j \in 1..Len(SentJokes) : i # j => SentJokes[i].id # SentJokes[j].id
    /\ \A i \in 1..Len(SentJokes) :
         ~SentJokes[i].joke.isNull /\ Len(SentJokes[i].joke.text) > 3
    /\ rdResp[1].body.count = Len(SentJokes)

(***************************************************************************)
(* C22, as stated: GET /jokes/random returns at most count jokes, count    *)
(* being the requested count defaulted to 1 and clamped to 1..10; the      *)
(* jokes have pairwise distinct ids, each a text longer than 3 characters, *)
(* and the count field is the number of jokes.  ?count=2.5 refutes the     *)
(* first part: three jokes come back.                                      *)
(***************************************************************************)
C22_AtMostCountJokes ==
    RandomAnswered =>
        /\ 10 * Len(SentJokes) <= ClampCount(rdQuery)
        /\ SentJokesWellFormed

(***************************************************************************)
(* C22, amended: GET /jokes/random returns at most count jokes rounded up  *)
(* to a whole number (fewer than count + 1), count being the requested     *)
(* count defaulted to 1 and clamped to 1..10; the jokes have pairwise      *)
(* distinct ids, each a text longer than 3 characters, and the count field *)
(* is the number of jokes.                                                 *)
(***************************************************************************)
C22_AtMostCountRoundedUp ==
    RandomAnswered =>
        /\ 10 * Len(SentJokes) < ClampCount(rdQuery) + 10
        /\ SentJokesWellFormed

\* ?count=2.5 answered with three jokes
C22_Witness ==
    /\ RandomAnswered
    /\ rdQuery = <<"2", ".", "5">>
    /\ Len(SentJokes) = 3
    /\ rdFetches > 3

(***************************************************************************)
(* C26, as stated: the attempt loop of GET /jokes/random ends after at     *)
(* most 5 x count iterations and at most 5 x count page fetches, whatever  *)
(* the fetches give, and the request then gets a 200 response.             *)
(* ?count=2.5 refutes the bound: the loop makes 13 iterations.             *)
(***************************************************************************)
C26_AtMostFiveTimesCount ==
    rdPc # "idle" =>
        /\ 10 * rdAttempts <= ATTEMPTS_PER_JOKE * ClampCount(rdQuery)
        /\ 10 * rdFetches <= ATTEMPTS_PER_JOKE * ClampCount(rdQuery)
        /\ rdPc = "done" => Len(rdResp) = 1 /\ rdResp[1].status = 200

(***************************************************************************)
(* C26, amended: the attempt loop of GET /jokes/random ends after at most  *)
(* 5 x count iterations rounded up to a whole number (fewer than           *)
(* 5 x count + 1) and no more page fetches than iterations, whatever the   *)
(* fetches give (failures, pages without a joke, repeated random ids), and *)
(* the request then gets a 200 response, possibly with fewer than count    *)
(* jokes or none.                                                          *)
(***************************************************************************)
C26_AtMostFiveTimesCountRoundedUp ==
    rdPc # "idle" =>
        /\ 10 * rdAttempts < ATTEMPTS_PER_JOKE * ClampCount(rdQuery) + 10
        /\ rdFetches <= rdAttempts
        /\ Len(rdResp) = (IF rdPc = "done" THEN 1 ELSE 0)
        /\ rdPc = "done" =>
             /\ rdResp[1].status = 200
             /\ ~LoopGoesOn(rdJokes, rdAttempts, ClampCount(rdQuery))

\* the attempts of ?count=2 used up on failures and repeated ids: no joke
C26_Witness ==
    /\ rdPc = "done"
    /\ rdQuery = <<"2">>
    /\ rdAttempts = 10
    /\ rdFetches = 2
    /\ rdResp[1].status = 200
    /\ rdResp[1].body.jokes = <<>>

\* a page was sent
PageSent == plPc = "done" /\ Len(plResp) = 1 /\ plResp[1].status = 200

\* the limit and offset the claim describes, in tenths: the requested number,
\* or the default where none (or zero) was requested, cut to the range
ExpectedLimit ==
    LET q == NumberTenths(plQuery.limit)
    IN  IF q.nan \/ q.n = 0 THEN 200
        ELSE IF q.n < 10 THEN 10 ELSE IF q.n > 500 THEN 500 ELSE q.n

ExpectedOffset ==
    LET q == NumberTenths(plQuery.offset)
    IN  IF q.nan \/ q.n < 0 THEN 0 ELSE q.n

LimitsAsRequested ==
    /\ plResp[1].limit = ExpectedLimit
    /\ plResp[1].offset = ExpectedOffset
    /\ plResp[1].count = Len(plResp[1].pokemon)
    /\ plResp[1].hasNext <=> (ExpectedOffset + ExpectedLimit < 10 * plTotal)

DictionaryNeeded == hqPc = "start" /\ hqPc' # "start"

\* a need that finds the stored dictionary fresh sends nothing; one that finds
\* it 24 hours old or older sends a request
RefetchStep ==
    DictionaryNeeded /\ MapHas(cache, DictKey) =>
        IF now - cache[DictKey].ts < CACHE_TTL_POKEMON
        THEN loads' = loads
        ELSE Cardinality(loads' \ loads) = 1

(***************************************************************************)
(* C24: the Hebrew name dictionary is cached for 24 hours like every other *)
(* entry of the Pokemon cache: while the entry is fresh no request goes to *)
(* the dictionary site, and a dictionary need that arises once 24 hours    *)
(* have passed since it was stored fetches the dictionary again.           *)
(***************************************************************************)
C24_DictionaryRefetchedAfterTtl == [][RefetchStep]_vars

\* what a failed load leaves, what a later call does, and what a Hebrew
\* query gets while the dictionary is not loaded
RetryStep ==
    /\ (lastLoad' # lastLoad /\ lastLoad'.outcome \in {"error", "few"}) =>
         /\ heNamesDictLoaded' = heNamesDictLoaded
         /\ POKEMON_NAME_HE' = POKEMON_NAME_HE
    /\ (hqPc = "start" /\ hqPc' # "start" /\ ~heNamesDictLoaded) =>
         /\ hqPc' = "waiting"
         /\ hqLoad' \in loads' \ loads
    /\ lastLoad'.outcome = "ok" => heNamesDictLoaded'
    /\ (hqPc' \in {"pokeapi", "done"} /\ ~heNamesDictLoaded') =>
         /\ hqPokeGets' = 0
         /\ hqResp' = <<[status |-> 404, by |-> "hebrew"]>>

(***************************************************************************)
(* C27: a failed dictionary load is retried.  After a load that failed     *)
(* (request error, or 100 or fewer rows) the flag is as it was, each       *)
(* getHebrewNameMap call made while it is false sends the request again,   *)
(* a load that gets a valid table leaves the dictionary loaded, and until  *)
(* then a Hebrew query to /pokemon/detail gets 404 without any PokeAPI     *)
(* request.                                                                *)
(***************************************************************************)
C27_FailedLoadRetried == [][RetryStep]_vars

\* the startup load failed, and the request's getHebrewNameMap has sent the
\* request again
C27_Witness ==
    /\ hqPc = "waiting"
    /\ lastLoad.outcome = "error"
    /\ ~heNamesDictLoaded
    /\ hqLoad = 2
    /\ loads = {2}

(***************************************************************************)
(* C25: every endpoint that reports a species' nameHebrew resolves it in   *)
(* getHebrewName's documented order (PokeAPI's species names first, the    *)
(* loaded dictionary second, null last): what walkChain of                 *)
(* /pokemon/evolution reports for a species of the dictionary whose        *)
(* PokeAPI record it has is what getHebrewName reports for the same        *)
(* species, the same record and the same dictionary.                       *)
(***************************************************************************)
C25_ChainNameAsGetHebrewName ==
    (lookup.fn = "chainName" /\ lookup.key \in DOMAIN POKEMON_NAME_HE.own) =>
        lookup.got = getHebrewName(lookup.names, lookup.key)

\* a fetchHebrewPokedex call returns in this step
PokedexReturns == hpLast'.id # hpLast.id

\* the cache holds null for the id, stored less than 24 hours ago
NullCached ==
    /\ MapHas(cache, PokedexKey)
    /\ cache[PokedexKey].data = "NULL"
    /\ now - cache[PokedexKey].ts < CACHE_TTL_POKEMON

PokedexStep ==
    /\ (PokedexReturns /\ (\/ hpLast'.how = "nolink"
                           \/ /\ hpLast'.how = "post"
                              /\ hpLast'.descriptions = 0
                              /\ hpLast'.trivia = 0)) =>
         /\ hpLast'.ret = "NULL"
         /\ MapHas(cache', PokedexKey)
         /\ cache'[PokedexKey] = [data |-> "NULL", ts |-> now]
    /\ (nHp' = nHp + 1 /\ NullCached) =>
         /\ PokedexReturns
         /\ hpLast'.ret = "NULL"
         /\ hpLast'.sent = 0
         /\ hpSent' = hpSent
         /\ hpRun' = hpRun
    /\ (PokedexReturns /\ hpLast'.how = "failed") =>
         /\ hpLast'.ret = "NULL"
         /\ cache' = cache
    /\ (nHp' = nHp + 1 /\ ~MapHas(cache, PokedexKey)) =>
         /\ hpSent' = hpSent + 1
         /\ hpRun' # hpRun

(***************************************************************************)
(* C28: fetchHebrewPokedex caches a negative outcome but not a failure.    *)
(* A call that finds no post link, or a post with neither descriptions nor *)
(* trivia, returns null and stores null; a call made while that null is    *)
(* less than 24 hours old returns null and sends no request; a call whose  *)
(* request fails returns null and leaves the cache as it was, so a call    *)
(* that finds no entry for the id sends a request.                         *)
(***************************************************************************)
C28_NegativeCachedFailureNot == [][PokedexStep]_vars

\* two requests were sent for the id, null is stored, and the third call got
\* the stored null without a request
C28_Witness ==
    /\ hpLast.id = 3
    /\ hpLast.how = "hit"
    /\ hpLast.ret = "NULL"
    /\ hpSent = 2
    /\ hpRun = {}

====
